---- MODULE Spec2Model ----
(***************************************************************************)
(* Verification model of the Digital.ai Agility VS Code extension:         *)
(*   - the status reconciler (mergeStatusConfig) and the operations that   *)
(*     write the persisted StatusConfigMap,                                *)
(*   - the status update protocol (updateTicketStatus),                    *)
(*   - the branch creation command (handleCreateBranch).                   *)
(* JavaScript optional booleans are modelled by the strings "undefined",   *)
(* "true" and "false"; status ids are the integers 1..NumIds (numeric      *)
(* object keys, which JavaScript enumerates in ascending order).           *)
(***************************************************************************)
EXTENDS Integers, Sequences, FiniteSets, TLC

\* ------------------------------------------------------------------------
\* Bounds of the model
\* ------------------------------------------------------------------------
NumIds == 2

MaxFetch == 2

StatusIds == 1..NumIds

\* ------------------------------------------------------------------------
\* Constants of the program
\* ------------------------------------------------------------------------
defaultColors == << "#1f77b4", "#ff7f0e", "#2ca02c", "#d62728", "#9467bd", "#8c564b" >>

unknownColor == "#999999"

\* The absent (undefined or empty, both falsy) colorName of a StatusInfo.
NoColorName == ""

\* agilityColorNameToHex[colorName.toLowerCase().trim()] ?? unknownColor, on
\* the colour names of the model.
agilityColorToHex(colorName) ==
  IF colorName = NoColorName
    THEN unknownColor
    ELSE LET normalized == CASE colorName = "Denim" -> "denim"
                             [] colorName = " jungle" -> "jungle"
                             [] OTHER -> colorName
         IN CASE normalized = "denim" -> "#2196f3"
              [] normalized = "jungle" -> "#4caf50"
              [] OTHER -> unknownColor

\* The empty StatusConfigMap, {}.
EmptyConfig == [i \in {} |-> i]

\* defaultColors[index % defaultColors.length] ?? unknownColor
PaletteColor(index) == defaultColors[(index % Len(defaultColors)) + 1]

\* ------------------------------------------------------------------------
\* mergeStatusConfig
\* ------------------------------------------------------------------------
\* The StatusConfig created for a fetched status that is not in the map.
NewStatusConfig(status, newStatusIndex) ==
  [id |-> status.id,
   name |-> status.name,
   color |-> IF status.colorName # NoColorName
               THEN agilityColorToHex(status.colorName)
               ELSE PaletteColor(newStatusIndex),
   order |-> status.order,
   isDevInProgress |-> "false",
   hidden |-> "undefined"]

\* result[key] = value, adding the key when it is missing.
Put(config, key, value) ==
  [k \in (DOMAIN config) \cup {key} |-> IF k = key THEN value ELSE config[k]]

RECURSIVE MergeLoopRecolor(_, _, _)
\* Mutant: the branch for a known id assigns the palette colour again.
MergeLoopRecolor(result, newStatusIndex, statuses) ==
  IF statuses = << >>
    THEN result
    ELSE LET status == Head(statuses)
         IN IF status.id \notin DOMAIN result
              THEN MergeLoopRecolor(Put(result, status.id, NewStatusConfig(status, newStatusIndex)),
                                    newStatusIndex + 1, Tail(statuses))
              ELSE MergeLoopRecolor(
                     Put(result, status.id,
                         [result[status.id] EXCEPT !.name = status.name,
                                                   !.order = status.order,
                                                   !.color = PaletteColor(newStatusIndex)]),
                     newStatusIndex, Tail(statuses))

RECURSIVE MergeLoopKeepName(_, _, _)
\* Mutant: the branch for a known id leaves the entry as it is.
MergeLoopKeepName(result, newStatusIndex, statuses) ==
  IF statuses = << >>
    THEN result
    ELSE LET status == Head(statuses)
         IN IF status.id \notin DOMAIN result
              THEN MergeLoopKeepName(Put(result, status.id, NewStatusConfig(status, newStatusIndex)),
                                     newStatusIndex + 1, Tail(statuses))
              ELSE MergeLoopKeepName(result, newStatusIndex, Tail(statuses))

RECURSIVE MergeLoop(_, _, _)
\* The for loop of mergeStatusConfig over the fetched statuses.
MergeLoop(result, newStatusIndex, statuses) ==
  IF statuses = << >>
    THEN result
    ELSE LET status == Head(statuses)
         IN IF status.id \notin DOMAIN result
              THEN MergeLoop(Put(result, status.id, NewStatusConfig(status, newStatusIndex)),
                             newStatusIndex + 1, Tail(statuses))
              ELSE MergeLoop(
                     Put(result, status.id,
                         [result[status.id] EXCEPT !.name = status.name,
                                                   !.order = status.order]),
                     newStatusIndex, Tail(statuses))

\* Mutant: the result holds the fetched ids only.
MergeFetchedOnly(existingConfig, fetchedStatuses) ==
  LET all == MergeLoop(existingConfig, Cardinality(DOMAIN existingConfig), fetchedStatuses)
  IN [i \in { fetchedStatuses[k].id : k \in 1..Len(fetchedStatuses) } |-> all[i]]

\* Mutant: the palette index counts from zero at every call.
MergeCountingFromZero(existingConfig, fetchedStatuses) ==
  MergeLoop(existingConfig, 0, fetchedStatuses)

mergeStatusConfig(existingConfig, fetchedStatuses) ==
  MergeLoop(existingConfig, Cardinality(DOMAIN existingConfig), fetchedStatuses)

\* ------------------------------------------------------------------------
\* The maps the handlers compute and save
\* ------------------------------------------------------------------------
\* for (const [id, cfg] of Object.entries(configs)) updated[id] = {...cfg, isDevInProgress: id === statusId}
\* (StatusTreeProvider.setDevInProgress, handleSetDevInProgressStatus, ensureDevInProgressStatus)
FlagOnly(configs, statusId) ==
  [id \in DOMAIN configs |-> [configs[id] EXCEPT !.isDevInProgress = IF id = statusId THEN "true" ELSE "false"]]

\* StatusTreeProvider.changeColor and configureStatus: {...configs, [item.id]: {...item, color}}
WithColor(configs, item, color) ==
  Put(configs, item.id, [item EXCEPT !.color = color])

\* The ids of a fetched list.
IdsOf(statuses) == { statuses[k].id : k \in 1..Len(statuses) }

\* The fetched status with id i (statuses.find).
FindStatus(statuses, i) ==
  statuses[CHOOSE k \in 1..Len(statuses) :
             /\ statuses[k].id = i
             /\ \A h \in 1..(k - 1) : statuses[h].id # i]

\* ------------------------------------------------------------------------
\* Input domains
\* ------------------------------------------------------------------------
\* What the server may report for one status id (name and order change together).
StatusInfos ==
  { [id |-> i, name |-> v[1], order |-> v[2], colorName |-> c] :
      i \in StatusIds, v \in {<< "To Do", 1 >>, << "Doing", 2 >>}, c \in { NoColorName, "Denim" } }

RECURSIVE SeqsUpTo(_, _)
\* All sequences over S of length at most n.
SeqsUpTo(S, n) ==
  IF n = 0
    THEN { << >> }
    ELSE LET shorter == SeqsUpTo(S, n - 1)
         IN shorter \cup { Append(s, x) : s \in { t \in shorter : Len(t) = n - 1 }, x \in S }

\* The maps a user-customised configuration may hold before a merge, over
\* any set of ids: (isDevInProgress, hidden) left unset or set.
StoredConfigs ==
  UNION { { c \in [D -> [id : D, name : { "Old" }, color : { "#abcdef" }, order : { 9 },
                         isDevInProgress : { "undefined", "true", "false" },
                         hidden : { "undefined", "true", "false" }]] :
              \A i \in D :
                /\ c[i].id = i
                /\ << c[i].isDevInProgress, c[i].hidden >> \in
                     { << "undefined", "undefined" >>, << "true", "false" >>,
                       << "false", "true" >>, << "true", "true" >> } } :
            D \in SUBSET StatusIds }

\* Number of entries flagged isDevInProgress === true.
FlaggedIds(config) == { i \in DOMAIN config : config[i].isDevInProgress = "true" }

\* ------------------------------------------------------------------------
\* State
\* ------------------------------------------------------------------------
\* ------------------------------------------------------------------------
\* Branch names.  A string of the program is a sequence of one-character
\* strings; an undefined string is the empty sequence (the code tests
\* strings for truthiness only).
\* ------------------------------------------------------------------------
UpperCase ==
  << "A", "B", "C", "D", "E", "F", "G", "H", "I", "J", "K", "L", "M",
     "N", "O", "P", "Q", "R", "S", "T", "U", "V", "W", "X", "Y", "Z" >>

LowerCase ==
  << "a", "b", "c", "d", "e", "f", "g", "h", "i", "j", "k", "l", "m",
     "n", "o", "p", "q", "r", "s", "t", "u", "v", "w", "x", "y", "z" >>

\* Whether character c is in a character class of the regular expressions
\* ("." is what . matches: anything but a line terminator).
InClass(c, class) ==
  LET Range(f) == { f[i] : i \in DOMAIN f }
      digit == { "0", "1", "2", "3", "4", "5", "6", "7", "8", "9" }
      space == { " ", "\t", "\n", "\r" }
  IN CASE class = "\\d" -> c \in digit
       [] class = "[a-z0-9]" -> c \in Range(LowerCase) \cup digit
       [] class = "[^a-z0-9]" -> c \notin Range(LowerCase) \cup digit
       [] class = "\\w" -> c \in Range(LowerCase) \cup Range(UpperCase) \cup digit \cup { "_" }
       [] class = "[A-Z]" -> c \in Range(UpperCase)
       [] class = "[0-9A-Fa-f]" -> c \in digit \cup { "a", "b", "c", "d", "e", "f",
                                                     "A", "B", "C", "D", "E", "F" }
       [] class = "." -> c \notin { "\n", "\r" }
       [] class = "[-_\\s]" -> c \in { "-", "_" } \cup space
       [] class = "[:\\-\\s_]" -> c \in { ":", "-", "_" } \cup space
       [] class = "[sd]i" -> c \in { "s", "d", "S", "D" }
       [] class = "_" -> c = "_"

\* The length of the longest run of characters of a class that starts at from.
Run(str, from, class) ==
  CHOOSE n \in 0..Len(str) :
    /\ \A k \in from..(from + n - 1) : k <= Len(str) /\ InClass(str[k], class)
    /\ from + n > Len(str) \/ ~InClass(str[from + n], class)

\* str from position from on.
From(str, from) == SubSeq(str, from, Len(str))

\* String.prototype.toLowerCase
toLowerCase(str) ==
  [i \in 1..Len(str) |->
     IF InClass(str[i], "[A-Z]")
       THEN LowerCase[CHOOSE k \in 1..Len(UpperCase) : UpperCase[k] = str[i]]
       ELSE str[i]]

\* ticketNumber.replace(/\D/g, '')
Digits(str) ==
  LET IsDigit(c) == InClass(c, "\\d")
  IN SelectSeq(str, IsDigit)

\* result.replace(/\[.*?\]/g, '')
RECURSIVE RemoveBrackets(_)
RemoveBrackets(str) ==
  IF str = << >>
    THEN << >>
    ELSE LET closing == { j \in 2..Len(str) : str[j] = "]" }
             first == CHOOSE j \in closing : \A k \in closing : j <= k
         IN IF /\ str[1] = "["
               /\ closing # { }
               /\ \A k \in 2..(first - 1) : InClass(str[k], ".")
              THEN RemoveBrackets(From(str, first + 1))
              ELSE << str[1] >> \o RemoveBrackets(Tail(str))

\* The text after a match of (\d+\b)[:\-\s_]* that starts at position from;
\* str itself when there is no match.
AfterNumber(str, from) ==
  LET n == Run(str, from, "\\d")
      after == from + n
  IN IF n >= 1 /\ (after > Len(str) \/ ~InClass(str[after], "\\w"))
       THEN From(str, after + Run(str, after, "[:\\-\\s_]"))
       ELSE str

\* result.replace(/[^a-z0-9]+/g, '_')
RECURSIVE NormalizeToUnderscores(_)
NormalizeToUnderscores(str) ==
  IF str = << >>
    THEN << >>
    ELSE IF InClass(str[1], "[a-z0-9]")
      THEN << str[1] >> \o NormalizeToUnderscores(Tail(str))
      ELSE << "_" >> \o NormalizeToUnderscores(From(str, 1 + Run(str, 1, "[^a-z0-9]")))

\* result.replace(/_+/g, '_')
RECURSIVE CollapseUnderscores(_)
CollapseUnderscores(str) ==
  IF str = << >>
    THEN << >>
    ELSE IF str[1] = "_"
      THEN << "_" >> \o CollapseUnderscores(From(str, 1 + Run(str, 1, "_")))
      ELSE << str[1] >> \o CollapseUnderscores(Tail(str))

\* toLowerCase; /\[.*?\]/g; /^([sd][-_\s]?\d+\b)[:\-\s_]*/i; /^(\d+\b)[:\-\s_]*/i;
\* /[^a-z0-9]+/g -> '_'; /^_+|_+$/g; /_+/g -> '_'
slugify(input) ==
  LET unbracketed == RemoveBrackets(toLowerCase(input))
      withoutId == IF unbracketed # << >> /\ InClass(unbracketed[1], "[sd]i")
                     THEN AfterNumber(unbracketed,
                                      IF Len(unbracketed) >= 2 /\ InClass(unbracketed[2], "[-_\\s]")
                                        THEN 3 ELSE 2)
                     ELSE unbracketed
      normalized == NormalizeToUnderscores(AfterNumber(withoutId, 1))
      rest == From(normalized, 1 + Run(normalized, 1, "_"))
      trailing == CHOOSE n \in 0..Len(rest) :
                    /\ \A k \in (Len(rest) - n + 1)..Len(rest) : rest[k] = "_"
                    /\ n = Len(rest) \/ rest[Len(rest) - n] # "_"
  IN CollapseUnderscores(SubSeq(rest, 1, Len(rest) - trailing))

\* titleForSlug.replace(new RegExp(`([sd][-_\\s]?${digits}|${digits})`, 'ig'), '')
RECURSIVE RemoveTicketNumber(_, _)
RemoveTicketNumber(str, digits) ==
  IF str = << >>
    THEN << >>
    ELSE LET n == Len(digits)
             At(from) == from + n - 1 <= Len(str) /\ SubSeq(str, from, from + n - 1) = digits
             matched == IF InClass(str[1], "[sd]i") /\ Len(str) >= 2 /\ InClass(str[2], "[-_\\s]") /\ At(3)
                          THEN n + 2
                          ELSE IF InClass(str[1], "[sd]i") /\ At(2)
                            THEN n + 1
                            ELSE IF At(1) THEN n ELSE 0
         IN IF matched > 0
              THEN RemoveTicketNumber(From(str, matched + 1), digits)
              ELSE << str[1] >> \o RemoveTicketNumber(Tail(str), digits)

\* Mutant: the title is slugified as it is, ticket number included.
generateBranchNameOfTitle(ticketNumber, title) ==
  ticketNumber \o << "/" >> \o
    (IF title # << >> THEN slugify(title) ELSE << "t", "i", "c", "k", "e", "t" >>)

generateBranchName(ticketNumber, title) ==
  LET digits == Digits(ticketNumber)
      titleForSlug == IF ticketNumber # << >> /\ digits # << >>
                        THEN RemoveTicketNumber(title, digits)
                        ELSE title
      slug == IF titleForSlug # << >>
                THEN slugify(titleForSlug)
                ELSE << "t", "i", "c", "k", "e", "t" >>
  IN ticketNumber \o << "/" >> \o slug

VARIABLES
  existingConfig,    \* mergeStatusConfig: the existingConfig argument
  fetchedStatuses,   \* mergeStatusConfig: the fetchedStatuses argument
  merged,            \* mergeStatusConfig(existingConfig, fetchedStatuses)
  mergedAgain,       \* mergeStatusConfig(merged, fetchedStatuses)
  mergePc            \* "input", "merged", "remerged"

VARIABLES
  statusConfig,      \* setting agility.statusConfig (the persisted StatusConfigMap)
  selectedTeam,      \* setting agility.selectedTeam (NoTeam when unset)
  lastSave,          \* history: the handler of the last saveStatusConfig and its status id
  statusConfigs,     \* StatusTreeProvider.statusConfigs
  loading,           \* StatusTreeProvider.loading
  treeItems,         \* the StatusTreeItems on display: id -> item.statusConfig
  gcPc,              \* the getChildren call past the loading guard: "idle", "fetching", "saving"
  gcStatuses,        \* its fetched statuses
  pendingRefresh,    \* handlers whose save is done and whose trailing refresh is still to run
  ccPc,              \* StatusTreeProvider.changeColor: "idle", "picking"
  ccItem,            \* its item.statusConfig
  cmdPc,             \* the status command in progress (handleConfigureStatusColors,
                     \* handleSetDevInProgressStatus, configureStatus)
  cmdMerged,         \* its mergedConfig / allConfig
  cmdStatuses,       \* its fetched statuses
  cmdStatus,         \* its selected.statusConfig
  opsStarted         \* number of command invocations so far (bounded by MaxOps)

VARIABLES
  updPc,             \* updateTicketStatus: "idle", "called", "post1", "post2", "resolved", "rejected"
  updArgs,           \* its arguments ticketId, statusId, assetType, ownerId
  posts,             \* the POSTs it sent, in order, each with the response it got
  updError,          \* the message prefix of the error it threw ("" when none)
  updCalls           \* number of calls of updateTicketStatus

VARIABLES
  legacyDevId,       \* setting agility.devInProgressStatusId (0 when unset)
  selectedMember,    \* what getSelectedMemberId() of the My Tickets view returns
  cbPc,              \* agility.createBranch: where handleCreateBranch stands
  cbTicket,          \* its ticket info: number, label, assetId, assetType
  cbDevId,           \* its devInProgressId (0 when undefined)
  cbMerged,          \* ensureDevInProgressStatus: mergedConfig
  cbStatuses,        \* ensureDevInProgressStatus: statuses
  cbBranch,          \* its branchName
  cbChoices,         \* history: the prompts it showed and the answers it got
  messages,          \* the messages it showed, in order

  gitExtension,      \* whether the vscode.git extension is there
  repoCount,         \* number of repositories of the git extension
  refs,              \* repo.state.refs: the branch names
  hasHead,           \* Boolean(repo.state.HEAD.commit)
  currentBranch,     \* the branch that is checked out
  gitOps,            \* history: the git operations the command ran, with their outcome

  bnTicketNumber,    \* generateBranchName: its ticketNumber
  bnTitle,           \* the title passed to generateBranchName, the input of slugify
  bnSlug,            \* what slugify(title) returned
  bnBranchName,      \* what generateBranchName(ticketNumber, title) returned
  bnDone,            \* which of the two functions have been applied

  gtTickets,         \* groupTicketsByStatus: its tickets
  gtGroups,          \* the StatusGroup[] it returned
  gtPc,              \* whether it has been applied

  vcKind,            \* the class behind the 'agility' view: "webview" or "tree"
  vcConfigured,      \* instance URL and access token are both set
  vcView,            \* webview: this.view is set
  vcHtml,            \* webview: what this.view.webview.html shows
  vcMembers,         \* this.members
  vcSelected,        \* this.selectedMemberId
  vcTickets,         \* this.tickets
  vcLoading,         \* this.loading
  vcSelecting,       \* tree: this.selectingMember
  vcCalls,           \* the calls of async methods that await something
  vcLast,            \* history: what the call that ended last returned or reported
  vcFilter           \* currentFilter ("" for the webview's '' and the tree's null)

mergeVars == << existingConfig, fetchedStatuses, merged, mergedAgain, mergePc >>

settingVars == << statusConfig, selectedTeam, lastSave >>

treeVars == << statusConfigs, loading, treeItems, gcPc, gcStatuses, pendingRefresh, ccPc, ccItem >>

cmdVars == << cmdPc, cmdMerged, cmdStatuses, cmdStatus >>

updVars == << updPc, updArgs, posts, updError, updCalls >>

envVars == << legacyDevId, selectedMember >>

ticketVars == << bnTicketNumber, bnTitle, bnSlug, bnBranchName, bnDone, gtTickets, gtGroups, gtPc >>

viewVars == << vcKind, vcConfigured, vcView, vcHtml, vcMembers, vcSelected, vcTickets, vcLoading, vcSelecting, vcCalls, vcLast,
              vcFilter >>

cbVars == << cbPc, cbTicket, cbDevId, cbMerged, cbStatuses, cbBranch, cbChoices, messages >>

gitVars == << gitExtension, repoCount, refs, hasHead, currentBranch, gitOps >>

vars == << mergeVars, settingVars, treeVars, cmdVars, opsStarted, updVars, envVars, ticketVars, viewVars, cbVars, gitVars >>

\* The variables of the pure reconciler, at rest.
MergeIdle ==
  /\ existingConfig = EmptyConfig
  /\ fetchedStatuses = << >>
  /\ merged = EmptyConfig
  /\ mergedAgain = EmptyConfig
  /\ mergePc = "idle"

NoTeam == "none"

NoSave == [by |-> "none", id |-> 0]

\* No StatusConfig (an unset selected.statusConfig or item.statusConfig).
NoStatus == [id |-> 0]

\* The settings of the status view, unset.
StatusIdle ==
  /\ statusConfig = EmptyConfig
  /\ selectedTeam = NoTeam
  /\ lastSave = NoSave

\* The status view and the status commands, at rest.
ViewIdle ==
  /\ statusConfigs = EmptyConfig
  /\ loading = FALSE
  /\ treeItems = EmptyConfig
  /\ gcPc = "idle"
  /\ gcStatuses = << >>
  /\ pendingRefresh = 0
  /\ ccPc = "idle"
  /\ ccItem = NoStatus
  /\ cmdPc = "idle"
  /\ cmdMerged = EmptyConfig
  /\ cmdStatuses = << >>
  /\ cmdStatus = NoStatus
  /\ opsStarted = 0

NoMember == "none"


\* updateTicketStatus, not called.
UpdateIdle ==
  /\ updPc = "idle"
  /\ updArgs = [ticketId |-> << >>, statusId |-> 0, assetType |-> "", ownerId |-> NoMember]
  /\ posts = << >>
  /\ updError = ""
  /\ updCalls = 0

NoTicket == [ticketNumber |-> << >>, label |-> << >>, assetId |-> << >>, assetType |-> ""]

NoBranch == << >>

MainBranch == << "m", "a", "i", "n" >>

\* The createBranch command, not invoked.
CommandIdle ==
  /\ cbPc = "idle"
  /\ cbTicket = NoTicket
  /\ cbDevId = 0
  /\ cbMerged = EmptyConfig
  /\ cbStatuses = << >>
  /\ cbBranch = NoBranch
  /\ cbChoices = << >>
  /\ messages = << >>

\* The surroundings of the createBranch command, left out of a specification.
BranchIdle ==
  /\ legacyDevId = 0
  /\ selectedMember = NoMember
  /\ CommandIdle
  /\ gitExtension = TRUE
  /\ repoCount = 1
  /\ refs = { MainBranch }
  /\ hasHead = TRUE
  /\ currentBranch = MainBranch
  /\ gitOps = << >>

\* No branch name is being derived, no ticket list grouped.
TicketsIdle ==
  /\ bnTicketNumber = << >>
  /\ bnTitle = << >>
  /\ bnSlug = << >>
  /\ bnBranchName = << >>
  /\ bnDone = { }
  /\ gtTickets = << >>
  /\ gtGroups = << >>
  /\ gtPc = "idle"

\* No view controller is constructed.
ControllerIdle ==
  /\ vcKind = "none"
  /\ vcConfigured = FALSE
  /\ vcView = FALSE
  /\ vcHtml = "none"
  /\ vcMembers = { }
  /\ vcSelected = NoMember
  /\ vcTickets = << >>
  /\ vcLoading = FALSE
  /\ vcSelecting = FALSE
  /\ vcCalls = << >>
  /\ vcLast = ""
  /\ vcFilter = ""

\* ------------------------------------------------------------------------
\* Specification of the pure reconciler: merge once, then merge the result
\* ------------------------------------------------------------------------
MergeInit ==
  /\ ControllerIdle
  /\ TicketsIdle
  /\ existingConfig \in StoredConfigs
  /\ fetchedStatuses \in SeqsUpTo(StatusInfos, MaxFetch)
  /\ merged = EmptyConfig
  /\ mergedAgain = EmptyConfig
  /\ mergePc = "input"
  /\ StatusIdle
  /\ ViewIdle
  /\ UpdateIdle
  /\ BranchIdle

Merge ==
  /\ mergePc = "input"
  /\ merged' = mergeStatusConfig(existingConfig, fetchedStatuses)
  /\ mergePc' = "merged"
  /\ UNCHANGED << existingConfig, fetchedStatuses, mergedAgain >>
  /\ UNCHANGED << settingVars, treeVars, cmdVars, opsStarted, updVars, envVars, ticketVars, viewVars, cbVars, gitVars >>

MergeAgain ==
  /\ mergePc = "merged"
  /\ mergedAgain' = mergeStatusConfig(merged, fetchedStatuses)
  /\ mergePc' = "remerged"
  /\ UNCHANGED << existingConfig, fetchedStatuses, merged >>
  /\ UNCHANGED << settingVars, treeVars, cmdVars, opsStarted, updVars, envVars, ticketVars, viewVars, cbVars, gitVars >>

MergeNext == Merge \/ MergeAgain

SpecMerge == MergeInit /\ [][MergeNext]_vars

\* ------------------------------------------------------------------------
\* Claims about mergeStatusConfig
\* ------------------------------------------------------------------------
\* C2: mergeStatusConfig is idempotent: merging the fetched list into the
\* result of a merge of the same list returns that result, entry for entry.
C2_MergeIdempotent ==
  mergePc = "remerged" => mergedAgain = merged

\* C2 witness: a second merge was computed for a list with a repeated id, a
\* new id without colorName and an id that was already stored.
C2_Witness ==
  /\ mergePc = "remerged"
  /\ Len(fetchedStatuses) = 2
  /\ \E k \in 1..2 : /\ fetchedStatuses[k].id \notin DOMAIN existingConfig
                     /\ fetchedStatuses[k].colorName = NoColorName
  /\ DOMAIN existingConfig # {}

\* C3 as stated: every fetched status whose id is already stored yields an
\* entry with the stored color, isDevInProgress and hidden, and with that
\* fetched status's name and order.
C3_Original ==
  mergePc = "merged" =>
    \A k \in 1..Len(fetchedStatuses) :
      LET s == fetchedStatuses[k]
      IN s.id \in DOMAIN existingConfig =>
           /\ merged[s.id].color = existingConfig[s.id].color
           /\ merged[s.id].isDevInProgress = existingConfig[s.id].isDevInProgress
           /\ merged[s.id].hidden = existingConfig[s.id].hidden
           /\ merged[s.id].name = s.name
           /\ merged[s.id].order = s.order

\* C3 amended: every stored id that is fetched keeps its color,
\* isDevInProgress and hidden, and takes the name and order of the last
\* fetched status with that id.
C3_MergeKeepsCustomization ==
  mergePc = "merged" =>
    \A i \in DOMAIN existingConfig :
      LET hits == { h \in 1..Len(fetchedStatuses) : fetchedStatuses[h].id = i }
          k == CHOOSE h \in hits : \A g \in hits : g <= h
      IN hits # {} =>
           /\ merged[i].color = existingConfig[i].color
           /\ merged[i].isDevInProgress = existingConfig[i].isDevInProgress
           /\ merged[i].hidden = existingConfig[i].hidden
           /\ merged[i].name = fetchedStatuses[k].name
           /\ merged[i].order = fetchedStatuses[k].order

\* C19: an id of the existing config that no fetched status has keeps its entry,
\* equal in every field; the keys of the result are the existing keys
\* together with the fetched ids.
C19_UnfetchedPassThrough ==
  mergePc \in { "merged", "remerged" } =>
    /\ DOMAIN merged = DOMAIN existingConfig \cup IdsOf(fetchedStatuses)
    /\ \A i \in DOMAIN existingConfig \ IdsOf(fetchedStatuses) : merged[i] = existingConfig[i]

\* C19 witness: a merge that added a new id next to a stored, customised id
\* that was not fetched.
C19_Witness ==
  /\ mergePc = "merged"
  /\ \E i \in DOMAIN existingConfig \ IdsOf(fetchedStatuses) : existingConfig[i].hidden = "true"
  /\ IdsOf(fetchedStatuses) \ DOMAIN existingConfig # {}

\* C20 as stated: a new status without colorName gets the palette colour at
\* the number of fetched statuses processed before it in this call.
C20_Original ==
  mergePc = "merged" =>
    \A i \in IdsOf(fetchedStatuses) \ DOMAIN existingConfig :
      LET k == CHOOSE h \in 1..Len(fetchedStatuses) :
                 /\ fetchedStatuses[h].id = i
                 /\ \A g \in 1..(h - 1) : fetchedStatuses[g].id # i
      IN fetchedStatuses[k].colorName = NoColorName => merged[i].color = PaletteColor(k - 1)

\* C20 amended: a new id takes its colour at its first occurrence in the
\* fetched list: without colorName, the palette colour at (number of keys of
\* the existing config + number of new ids that occurred earlier in the list)
\* modulo the palette length; with a colorName, agilityColorToHex of that name.
C20_PaletteIndex ==
  mergePc = "merged" =>
    \A i \in IdsOf(fetchedStatuses) \ DOMAIN existingConfig :
      LET k == CHOOSE h \in 1..Len(fetchedStatuses) :
                 /\ fetchedStatuses[h].id = i
                 /\ \A g \in 1..(h - 1) : fetchedStatuses[g].id # i
          newBefore == { j \in IdsOf(fetchedStatuses) \ DOMAIN existingConfig :
                           \E h \in 1..(k - 1) : fetchedStatuses[h].id = j }
      IN merged[i].color =
           IF fetchedStatuses[k].colorName = NoColorName
             THEN PaletteColor(Cardinality(DOMAIN existingConfig) + Cardinality(newBefore))
             ELSE agilityColorToHex(fetchedStatuses[k].colorName)

\* C20 witness: a merge into a non-empty config whose fetched list is a status
\* of a new id without colorName, twice.
C20_Witness ==
  /\ mergePc = "merged"
  /\ DOMAIN existingConfig # {}
  /\ Len(fetchedStatuses) = 2
  /\ fetchedStatuses[1].id = fetchedStatuses[2].id
  /\ fetchedStatuses[1].id \notin DOMAIN existingConfig
  /\ fetchedStatuses[1].colorName = NoColorName
  /\ merged[fetchedStatuses[1].id].color = PaletteColor(1)

\* C3 witness: a merge over a stored, flagged and hidden id that was fetched.
C3_Witness ==
  /\ mergePc = "merged"
  /\ \E i \in DOMAIN existingConfig :
       /\ i \in IdsOf(fetchedStatuses)
       /\ existingConfig[i].isDevInProgress = "true"
       /\ existingConfig[i].hidden = "true"
       /\ merged[i].name # existingConfig[i].name

\* ------------------------------------------------------------------------
\* The status view (StatusTreeProvider) and the status commands
\* ------------------------------------------------------------------------
MaxPending == 1

MaxOps == 2

\* The status the server reports for id i.
ServerStatus(i) ==
  [id |-> i, name |-> IF i = 1 THEN "To Do" ELSE "Doing", order |-> i, colorName |-> NoColorName]

RECURSIVE AscendingList(_)
\* The statuses of the ids of S, sorted by Order as the query asks.
AscendingList(S) ==
  IF S = {}
    THEN << >>
    ELSE LET m == CHOOSE x \in S : \A y \in S : x <= y
         IN << ServerStatus(m) >> \o AscendingList(S \ {m})

\* What fetchStatuses may resolve to (the statuses of some team).
ServerLists == { AscendingList(S) : S \in SUBSET StatusIds }

\* The stored maps the status view and the commands start from: each entry
\* reconciled with the server earlier, then left alone or flagged and hidden;
\* they satisfy the at-most-one-flag invariant.
InitialConfigs ==
  { c \in UNION { [D -> { [id |-> i, name |-> ServerStatus(i).name, color |-> "#abcdef",
                           order |-> ServerStatus(i).order, isDevInProgress |-> f, hidden |-> f] :
                            i \in D, f \in { "undefined", "true" } }] : D \in SUBSET StatusIds } :
      /\ \A i \in DOMAIN c : c[i].id = i
      /\ Cardinality(FlaggedIds(c)) <= 1 }

StatusInit ==
  /\ ControllerIdle
  /\ TicketsIdle
  /\ MergeIdle
  /\ UpdateIdle
  /\ BranchIdle
  /\ statusConfig \in InitialConfigs
  /\ selectedTeam \in { "T1", NoTeam }
  /\ lastSave = NoSave
  /\ statusConfigs = EmptyConfig
  /\ loading = FALSE
  /\ treeItems = EmptyConfig
  /\ gcPc = "idle"
  /\ gcStatuses = << >>
  /\ pendingRefresh = 0
  /\ ccPc = "idle"
  /\ ccItem = NoStatus
  /\ cmdPc = "idle"
  /\ cmdMerged = EmptyConfig
  /\ cmdStatuses = << >>
  /\ cmdStatus = NoStatus
  /\ opsStarted = 0

\* A command is invoked (by the user or by an event).
StartOperation ==
  /\ opsStarted < MaxOps
  /\ opsStarted' = opsStarted + 1
  /\ UNCHANGED << updVars, envVars, ticketVars, viewVars, cbVars, gitVars >>

\* saveStatusConfig(config) called by handler `by`; `id` is the status a
\* setDevInProgress / setStatusDevInProgress(id, true) call flags, else 0.
Save(config, by, id) ==
  /\ statusConfig' = config
  /\ lastSave' = [by |-> by, id |-> id]

\* setSelectedTeamId: the team selection is changed or cleared.
SetSelectedTeam ==
  /\ StartOperation
  /\ \E t \in { "T1", NoTeam } \ {selectedTeam} : selectedTeam' = t
  /\ UNCHANGED << mergeVars, statusConfig, lastSave, treeVars, cmdVars >>

\* StatusTreeProvider.refresh (command, configuration change event, refreshViews)
Refresh ==
  /\ StartOperation
  /\ statusConfigs' = EmptyConfig
  /\ UNCHANGED << mergeVars, settingVars, loading, treeItems, gcPc, gcStatuses,
                  pendingRefresh, ccPc, ccItem, cmdVars >>

\* The refresh() that ends a handler after its awaited save.
TrailingRefresh ==
  /\ UNCHANGED << opsStarted, updVars, envVars, ticketVars, viewVars, cbVars, gitVars >>
  /\ pendingRefresh > 0
  /\ pendingRefresh' = pendingRefresh - 1
  /\ statusConfigs' = EmptyConfig
  /\ UNCHANGED << mergeVars, settingVars, loading, treeItems, gcPc, gcStatuses,
                  ccPc, ccItem, cmdVars >>

\* getChildren returns a message item: no team selected, or a call is loading.
GetChildrenMessage ==
  /\ UNCHANGED << opsStarted, updVars, envVars, ticketVars, viewVars, cbVars, gitVars >>
  /\ selectedTeam = NoTeam \/ loading
  /\ treeItems' = EmptyConfig
  /\ UNCHANGED << mergeVars, settingVars, statusConfigs, loading, gcPc, gcStatuses,
                  pendingRefresh, ccPc, ccItem, cmdVars >>

\* getChildren passes the guards and awaits fetchStatuses.
GetChildrenStart ==
  /\ UNCHANGED << opsStarted, updVars, envVars, ticketVars, viewVars, cbVars, gitVars >>
  /\ selectedTeam # NoTeam
  /\ ~loading
  /\ loading' = TRUE
  /\ gcPc' = "fetching"
  /\ UNCHANGED << mergeVars, settingVars, statusConfigs, treeItems, gcStatuses,
                  pendingRefresh, ccPc, ccItem, cmdVars >>

\* fetchStatuses throws, or resolves to no status: a message item is returned.
GetChildrenNoStatuses ==
  /\ UNCHANGED << opsStarted, updVars, envVars, ticketVars, viewVars, cbVars, gitVars >>
  /\ gcPc = "fetching"
  /\ loading' = FALSE
  /\ gcPc' = "idle"
  /\ treeItems' = EmptyConfig
  /\ UNCHANGED << mergeVars, settingVars, statusConfigs, gcStatuses,
                  pendingRefresh, ccPc, ccItem, cmdVars >>

\* fetchStatuses resolves: merge into the stored map and save.
GetChildrenMerge ==
  /\ UNCHANGED << opsStarted, updVars, envVars, ticketVars, viewVars, cbVars, gitVars >>
  /\ gcPc = "fetching"
  /\ \E statuses \in ServerLists \ { << >> } :
       /\ statusConfigs' = mergeStatusConfig(statusConfig, statuses)
       /\ Save(statusConfigs', "getChildren", 0)
       /\ gcStatuses' = statuses
  /\ gcPc' = "saving"
  /\ UNCHANGED << mergeVars, selectedTeam, loading, treeItems,
                  pendingRefresh, ccPc, ccItem, cmdVars >>

\* The save resolved: the items of the fetched statuses are returned.
GetChildrenItems ==
  /\ UNCHANGED << opsStarted, updVars, envVars, ticketVars, viewVars, cbVars, gitVars >>
  /\ gcPc = "saving"
  /\ loading' = FALSE
  /\ treeItems' =
       [i \in IdsOf(gcStatuses) |->
          IF i \in DOMAIN statusConfigs
            THEN statusConfigs[i]
            ELSE LET status == FindStatus(gcStatuses, i)
                 IN [id |-> i, name |-> status.name, color |-> "#1f77b4", order |-> status.order,
                     isDevInProgress |-> "false", hidden |-> "undefined"]]
  /\ gcPc' = "idle"
  /\ gcStatuses' = << >>
  /\ UNCHANGED << mergeVars, settingVars, statusConfigs, pendingRefresh, ccPc, ccItem, cmdVars >>

\* StatusTreeProvider.setDevInProgress(item) up to its save.
SetDevInProgress ==
  /\ StartOperation
  /\ pendingRefresh < MaxPending
  /\ \E i \in DOMAIN treeItems :
       Save(FlagOnly(statusConfigs, treeItems[i].id), "setDevInProgress", i)
  /\ pendingRefresh' = pendingRefresh + 1
  /\ UNCHANGED << mergeVars, selectedTeam, statusConfigs, loading, treeItems, gcPc, gcStatuses,
                  ccPc, ccItem, cmdVars >>

\* StatusTreeProvider.clearDevInProgress(item) up to its save.
ClearDevInProgress ==
  /\ StartOperation
  /\ pendingRefresh < MaxPending
  /\ \E i \in DOMAIN treeItems :
       Save([id \in DOMAIN statusConfigs |->
               [statusConfigs[id] EXCEPT !.isDevInProgress =
                  IF id = treeItems[i].id THEN "false" ELSE statusConfigs[id].isDevInProgress]],
            "clearDevInProgress", 0)
  /\ pendingRefresh' = pendingRefresh + 1
  /\ UNCHANGED << mergeVars, selectedTeam, statusConfigs, loading, treeItems, gcPc, gcStatuses,
                  ccPc, ccItem, cmdVars >>

\* StatusTreeProvider.toggleVisibility(item) up to its save of
\* {...statusConfigs, [item.id]: {...item, hidden: !(item.hidden ?? false)}}.
ToggleItemVisibility ==
  /\ StartOperation
  /\ pendingRefresh < MaxPending
  /\ \E i \in DOMAIN treeItems :
       Save(Put(statusConfigs, treeItems[i].id,
                [treeItems[i] EXCEPT !.hidden = IF treeItems[i].hidden = "true" THEN "false" ELSE "true"]),
            "toggleVisibility", 0)
  /\ pendingRefresh' = pendingRefresh + 1
  /\ UNCHANGED << mergeVars, selectedTeam, statusConfigs, loading, treeItems, gcPc, gcStatuses,
                  ccPc, ccItem, cmdVars >>

\* StatusTreeProvider.changeColor(item) opens the colour picker.
ChangeColorStart ==
  /\ StartOperation
  /\ ccPc = "idle"
  /\ \E i \in DOMAIN treeItems : ccItem' = treeItems[i]
  /\ ccPc' = "picking"
  /\ UNCHANGED << mergeVars, settingVars, statusConfigs, loading, treeItems, gcPc, gcStatuses,
                  pendingRefresh, cmdVars >>

\* The colour picker is dismissed.
ChangeColorCancel ==
  /\ UNCHANGED << opsStarted, updVars, envVars, ticketVars, viewVars, cbVars, gitVars >>
  /\ ccPc = "picking"
  /\ ccPc' = "idle"
  /\ ccItem' = NoStatus
  /\ UNCHANGED << mergeVars, settingVars, statusConfigs, loading, treeItems, gcPc, gcStatuses,
                  pendingRefresh, cmdVars >>

\* A colour is picked: changeColor saves.
ChangeColorPicked ==
  /\ UNCHANGED << opsStarted, updVars, envVars, ticketVars, viewVars, cbVars, gitVars >>
  /\ ccPc = "picking"
  /\ pendingRefresh < MaxPending
  /\ \E color \in { "#ff6b6b" } :
       Save(WithColor(statusConfigs, ccItem, color), "changeColor", 0)
  /\ pendingRefresh' = pendingRefresh + 1
  /\ ccPc' = "idle"
  /\ ccItem' = NoStatus
  /\ UNCHANGED << mergeVars, selectedTeam, statusConfigs, loading, treeItems, gcPc, gcStatuses,
                  cmdVars >>

\* setStatusDevInProgress(statusId, isDevInProgress) of the status service.
SetStatusDevInProgress ==
  /\ StartOperation
  /\ \E i \in StatusIds, v \in { "true", "false" } :
       Save([id \in DOMAIN statusConfig |->
               [statusConfig[id] EXCEPT !.isDevInProgress =
                  IF id = i
                    THEN v
                    ELSE IF v = "true" THEN "false" ELSE statusConfig[id].isDevInProgress]],
            IF v = "true" THEN "setStatusDevInProgress" ELSE "setStatusDevInProgress(false)",
            IF v = "true" THEN i ELSE 0)
  /\ UNCHANGED << mergeVars, selectedTeam, treeVars, cmdVars >>

\* A status command is invoked with no team selected: a warning is shown.
StatusCommandNoTeam ==
  /\ StartOperation
  /\ cmdPc = "idle"
  /\ selectedTeam = NoTeam
  /\ UNCHANGED << mergeVars, settingVars, treeVars, cmdVars >>

\* handleConfigureStatusColors or handleSetDevInProgressStatus awaits fetchStatuses.
StatusCommandStart ==
  /\ StartOperation
  /\ cmdPc = "idle"
  /\ selectedTeam # NoTeam
  /\ cmdPc' \in { "configure_fetch", "setdev_fetch" }
  /\ UNCHANGED << mergeVars, settingVars, treeVars, cmdMerged, cmdStatuses, cmdStatus >>

\* fetchStatuses throws or resolves to no status, or a prompt of the command
\* is dismissed: the command returns.
StatusCommandReturn ==
  /\ UNCHANGED << opsStarted, updVars, envVars, ticketVars, viewVars, cbVars, gitVars >>
  /\ cmdPc # "idle"
  /\ cmdPc' = "idle"
  /\ cmdMerged' = EmptyConfig
  /\ cmdStatuses' = << >>
  /\ cmdStatus' = NoStatus
  /\ UNCHANGED << mergeVars, settingVars, treeVars >>

\* handleConfigureStatusColors: merge, save, then ask for the status.
ConfigureMerge ==
  /\ UNCHANGED << opsStarted, updVars, envVars, ticketVars, viewVars, cbVars, gitVars >>
  /\ cmdPc = "configure_fetch"
  /\ \E statuses \in ServerLists \ { << >> } :
       /\ cmdMerged' = mergeStatusConfig(statusConfig, statuses)
       /\ Save(cmdMerged', "handleConfigureStatusColors", 0)
       /\ cmdStatuses' = statuses
  /\ cmdPc' = "configure_pick"
  /\ UNCHANGED << mergeVars, selectedTeam, treeVars, cmdStatus >>

\* A status is selected: configureStatus asks for the action.
ConfigurePick ==
  /\ UNCHANGED << opsStarted, updVars, envVars, ticketVars, viewVars, cbVars, gitVars >>
  /\ cmdPc = "configure_pick"
  /\ \E i \in IdsOf(cmdStatuses) : cmdStatus' = cmdMerged[i]
  /\ cmdPc' = "configure_action"
  /\ UNCHANGED << mergeVars, settingVars, treeVars, cmdMerged, cmdStatuses >>

\* configureStatus, action 'color': the colour picker opens.
ConfigureColor ==
  /\ UNCHANGED << opsStarted, updVars, envVars, ticketVars, viewVars, cbVars, gitVars >>
  /\ cmdPc = "configure_action"
  /\ cmdPc' = "configure_color"
  /\ UNCHANGED << mergeVars, settingVars, treeVars, cmdMerged, cmdStatuses, cmdStatus >>

\* configureStatus: a colour is picked and saved; refreshViews follows.
ConfigureColorPicked ==
  /\ UNCHANGED << opsStarted, updVars, envVars, ticketVars, viewVars, cbVars, gitVars >>
  /\ cmdPc = "configure_color"
  /\ pendingRefresh < MaxPending
  /\ \E color \in { "#ff6b6b" } :
       Save(WithColor(cmdMerged, cmdStatus, color), "configureStatus", 0)
  /\ pendingRefresh' = pendingRefresh + 1
  /\ cmdPc' = "idle"
  /\ cmdMerged' = EmptyConfig
  /\ cmdStatuses' = << >>
  /\ cmdStatus' = NoStatus
  /\ UNCHANGED << mergeVars, selectedTeam, statusConfigs, loading, treeItems, gcPc, gcStatuses,
                  ccPc, ccItem >>

\* configureStatus, action 'devInProgress': the flag is toggled and saved.
ConfigureDevInProgress ==
  /\ UNCHANGED << opsStarted, updVars, envVars, ticketVars, viewVars, cbVars, gitVars >>
  /\ cmdPc = "configure_action"
  /\ pendingRefresh < MaxPending
  /\ LET newIsDevInProgress == IF cmdStatus.isDevInProgress = "true" THEN "false" ELSE "true"
     IN Save([id \in DOMAIN cmdMerged |->
                [cmdMerged[id] EXCEPT !.isDevInProgress =
                   IF id = cmdStatus.id
                     THEN newIsDevInProgress
                     ELSE IF newIsDevInProgress = "true"
                       THEN "false"
                       ELSE cmdMerged[id].isDevInProgress]],
             "configureStatus", 0)
  /\ pendingRefresh' = pendingRefresh + 1
  /\ cmdPc' = "idle"
  /\ cmdMerged' = EmptyConfig
  /\ cmdStatuses' = << >>
  /\ cmdStatus' = NoStatus
  /\ UNCHANGED << mergeVars, selectedTeam, statusConfigs, loading, treeItems, gcPc, gcStatuses,
                  ccPc, ccItem >>

\* handleSetDevInProgressStatus: merge (not saved), then ask for the status.
SetDevMerge ==
  /\ UNCHANGED << opsStarted, updVars, envVars, ticketVars, viewVars, cbVars, gitVars >>
  /\ cmdPc = "setdev_fetch"
  /\ \E statuses \in ServerLists \ { << >> } :
       /\ cmdMerged' = mergeStatusConfig(statusConfig, statuses)
       /\ cmdStatuses' = statuses
  /\ cmdPc' = "setdev_pick"
  /\ UNCHANGED << mergeVars, settingVars, treeVars, cmdStatus >>

\* Mutant: handleSetDevInProgressStatus reads the persisted map again when
\* the status has been selected.
SetDevPickRereading ==
  /\ UNCHANGED << opsStarted, updVars, envVars, ticketVars, viewVars, cbVars, gitVars >>
  /\ cmdPc = "setdev_pick"
  /\ pendingRefresh < MaxPending
  /\ \E i \in IdsOf(cmdStatuses) :
       Save(FlagOnly(mergeStatusConfig(statusConfig, cmdStatuses), i),
            "handleSetDevInProgressStatus", 0)
  /\ pendingRefresh' = pendingRefresh + 1
  /\ cmdPc' = "idle"
  /\ cmdMerged' = EmptyConfig
  /\ cmdStatuses' = << >>
  /\ cmdStatus' = NoStatus
  /\ UNCHANGED << mergeVars, selectedTeam, statusConfigs, loading, treeItems, gcPc, gcStatuses,
                  ccPc, ccItem >>

\* handleSetDevInProgressStatus: a status is selected, flagged and saved.
SetDevPick ==
  /\ UNCHANGED << opsStarted, updVars, envVars, ticketVars, viewVars, cbVars, gitVars >>
  /\ cmdPc = "setdev_pick"
  /\ pendingRefresh < MaxPending
  /\ \E i \in IdsOf(cmdStatuses) :
       Save(FlagOnly(cmdMerged, i), "handleSetDevInProgressStatus", 0)
  /\ pendingRefresh' = pendingRefresh + 1
  /\ cmdPc' = "idle"
  /\ cmdMerged' = EmptyConfig
  /\ cmdStatuses' = << >>
  /\ cmdStatus' = NoStatus
  /\ UNCHANGED << mergeVars, selectedTeam, statusConfigs, loading, treeItems, gcPc, gcStatuses,
                  ccPc, ccItem >>

\* ------------------------------------------------------------------------
\* agility.createBranch: ensureDevInProgressStatus
\* ------------------------------------------------------------------------
\* getDevInProgressStatusId: the first flagged entry, else the legacy setting.
getDevInProgressStatusId(config, legacy) ==
  LET flagged == FlaggedIds(config)
  IN IF flagged # {}
       THEN CHOOSE i \in flagged : \A j \in flagged : i <= j
       ELSE legacy

\* The map ensureDevInProgressStatus saves for the selected status.
EnsureUpdatedConfig(mergedConfig, statuses, statusId) ==
  LET updatedConfig == FlagOnly(mergedConfig, statusId)
  IN IF statusId \notin DOMAIN updatedConfig
       THEN LET statusInfo == FindStatus(statuses, statusId)
            IN Put(updatedConfig, statusId,
                   [id |-> statusId, name |-> statusInfo.name, color |-> "#1f77b4",
                    order |-> statusInfo.order, isDevInProgress |-> "true",
                    hidden |-> "undefined"])
       ELSE updatedConfig

\* The answer to a prompt of the command is recorded.
Chose(prompt, answer) == cbChoices' = Append(cbChoices, [prompt |-> prompt, answer |-> answer])

\* The command is invoked: ensureDevInProgressStatus returns the configured
\* id, or opens the prompt that fits the team selection.
CreateBranchStart ==
  /\ cbPc = "idle"
  /\ opsStarted < MaxOps
  /\ opsStarted' = opsStarted + 1
  /\ LET devInProgressId == getDevInProgressStatusId(statusConfig, legacyDevId)
     IN /\ cbDevId' = devInProgressId
        /\ cbPc' = IF devInProgressId # 0
                     THEN "ticket_info"
                     ELSE IF selectedTeam = NoTeam
                            THEN "ensure_team_prompt"
                            ELSE "ensure_status_prompt"
  /\ UNCHANGED << cbTicket, cbMerged, cbStatuses, cbBranch, cbChoices, messages >>
  /\ UNCHANGED << mergeVars, settingVars, treeVars, cmdVars, updVars, envVars, ticketVars, viewVars, gitVars >>

\* 'Please select a team first' is answered: 'Select Team' runs
\* agility.changeTeam; every answer makes ensureDevInProgressStatus return undefined.
EnsureTeamPromptAnswered ==
  /\ cbPc = "ensure_team_prompt"
  /\ \E answer \in { "Select Team", "Skip", "" } :
       /\ Chose("team", answer)
       /\ messages' = IF answer = "Select Team"
                        THEN Append(messages, "executeCommand agility.changeTeam")
                        ELSE messages
  /\ cbPc' = "ticket_info"
  /\ UNCHANGED << cbTicket, cbDevId, cbMerged, cbStatuses, cbBranch >>
  /\ UNCHANGED << mergeVars, settingVars, treeVars, cmdVars, opsStarted, updVars, envVars, ticketVars, viewVars, gitVars >>

\* 'No Dev in Progress status configured' is answered.
EnsureStatusPromptAnswered ==
  /\ cbPc = "ensure_status_prompt"
  /\ \E answer \in { "Select Status", "Skip", "" } :
       /\ Chose("status", answer)
       /\ cbPc' = IF answer = "Select Status" THEN "ensure_fetch" ELSE "ticket_info"
  /\ UNCHANGED << cbTicket, cbDevId, cbMerged, cbStatuses, cbBranch, messages >>
  /\ UNCHANGED << mergeVars, settingVars, treeVars, cmdVars, opsStarted, updVars, envVars, ticketVars, viewVars, gitVars >>

\* fetchStatuses throws, or resolves to no status: a message, and undefined.
EnsureNoStatuses ==
  /\ cbPc = "ensure_fetch"
  /\ \E message \in { "Failed to fetch statuses", "No statuses found for the selected team." } :
       messages' = Append(messages, message)
  /\ cbPc' = "ticket_info"
  /\ UNCHANGED << cbTicket, cbDevId, cbMerged, cbStatuses, cbBranch, cbChoices >>
  /\ UNCHANGED << mergeVars, settingVars, treeVars, cmdVars, opsStarted, updVars, envVars, ticketVars, viewVars, gitVars >>

\* fetchStatuses resolves: merge (not saved) and ask for the status.
EnsureMerge ==
  /\ cbPc = "ensure_fetch"
  /\ \E statuses \in ServerLists \ { << >> } :
       /\ cbMerged' = mergeStatusConfig(statusConfig, statuses)
       /\ cbStatuses' = statuses
  /\ cbPc' = "ensure_pick"
  /\ UNCHANGED << cbTicket, cbDevId, cbBranch, cbChoices, messages >>
  /\ UNCHANGED << mergeVars, settingVars, treeVars, cmdVars, opsStarted, updVars, envVars, ticketVars, viewVars, gitVars >>

\* Mutant: a dismissed status quick pick saves the merged map.
EnsurePickDismissedSaving ==
  /\ cbPc = "ensure_pick"
  /\ Chose("pick", "")
  /\ Save(cbMerged, "ensureDevInProgressStatus", 0)
  /\ cbPc' = "ticket_info"
  /\ cbMerged' = EmptyConfig
  /\ cbStatuses' = << >>
  /\ UNCHANGED << cbTicket, cbDevId, cbBranch, messages >>
  /\ UNCHANGED << mergeVars, selectedTeam, treeVars, cmdVars, opsStarted, updVars, envVars, ticketVars, viewVars, gitVars >>

\* The status quick pick is dismissed.
EnsurePickDismissed ==
  /\ cbPc = "ensure_pick"
  /\ Chose("pick", "")
  /\ cbPc' = "ticket_info"
  /\ cbMerged' = EmptyConfig
  /\ cbStatuses' = << >>
  /\ UNCHANGED << cbTicket, cbDevId, cbBranch, messages >>
  /\ UNCHANGED << mergeVars, settingVars, treeVars, cmdVars, opsStarted, updVars, envVars, ticketVars, viewVars, gitVars >>

\* A status is picked: it is flagged in the merged map, which is saved.
EnsurePick ==
  /\ cbPc = "ensure_pick"
  /\ \E i \in IdsOf(cbStatuses) :
       /\ Save(EnsureUpdatedConfig(cbMerged, cbStatuses, i), "ensureDevInProgressStatus", 0)
       /\ cbDevId' = i
  /\ Chose("pick", "status")
  /\ messages' = Append(messages, "is now the Dev in Progress status.")
  /\ cbPc' = "ticket_info"
  /\ cbMerged' = EmptyConfig
  /\ cbStatuses' = << >>
  /\ UNCHANGED << cbTicket, cbBranch >>
  /\ UNCHANGED << mergeVars, selectedTeam, treeVars, cmdVars, opsStarted, updVars, envVars, ticketVars, viewVars, gitVars >>

\* The rest of handleCreateBranch, which does not touch the status map.
CreateBranchRest ==
  /\ cbPc = "ticket_info"
  /\ cbPc' = "idle"
  /\ cbTicket' = NoTicket
  /\ cbDevId' = 0
  /\ cbMerged' = EmptyConfig
  /\ cbStatuses' = << >>
  /\ cbBranch' = NoBranch
  /\ cbChoices' = << >>
  /\ messages' = << >>
  /\ UNCHANGED << mergeVars, settingVars, treeVars, cmdVars, opsStarted, updVars, envVars, ticketVars, viewVars, gitVars >>

StatusNext ==
  \/ SetSelectedTeam
  \/ Refresh
  \/ TrailingRefresh
  \/ GetChildrenMessage
  \/ GetChildrenStart
  \/ GetChildrenNoStatuses
  \/ GetChildrenMerge
  \/ GetChildrenItems
  \/ SetDevInProgress
  \/ ClearDevInProgress
  \/ ToggleItemVisibility
  \/ ChangeColorStart
  \/ ChangeColorCancel
  \/ ChangeColorPicked
  \/ SetStatusDevInProgress
  \/ StatusCommandNoTeam
  \/ StatusCommandStart
  \/ StatusCommandReturn
  \/ ConfigureMerge
  \/ ConfigurePick
  \/ ConfigureColor
  \/ ConfigureColorPicked
  \/ ConfigureDevInProgress
  \/ SetDevMerge
  \/ SetDevPick
  \/ CreateBranchStart
  \/ EnsureTeamPromptAnswered
  \/ EnsureStatusPromptAnswered
  \/ EnsureNoStatuses
  \/ EnsureMerge
  \/ EnsurePickDismissed
  \/ EnsurePick
  \/ CreateBranchRest

SpecStatus == StatusInit /\ [][StatusNext]_vars

\* C1: at every moment the persisted map has at most one entry with
\* isDevInProgress === true, whatever the interleaving of the handlers that
\* write the map.
C1_AtMostOneFlagged == Cardinality(FlaggedIds(statusConfig)) <= 1

\* C4: when a save of setDevInProgress(id), or of setStatusDevInProgress(id, true),
\* has just been written, exactly one entry of the persisted map is flagged,
\* and it is the entry of id.
C4_ExactlyTheChosenOneFlagged ==
  lastSave.by \in { "setDevInProgress", "setStatusDevInProgress" }
    => FlaggedIds(statusConfig) = { lastSave.id }

\* C5: no step of any handler removes a key from the persisted map: the keys
\* before a step are keys after it.
C5_NoKeyRemoved == [][DOMAIN statusConfig \subseteq DOMAIN statusConfig']_vars

\* ------------------------------------------------------------------------
\* updateTicketStatus: the status update protocol
\* ------------------------------------------------------------------------
\* The relation-style body: Status relation set, Owners relation with act="add" if ownerId.
RelationPayload(statusId, ownerId) ==
  [kind |-> "relation", statusId |-> statusId, statusAct |-> "set",
   owner |-> ownerId, ownerAct |-> IF ownerId # NoMember THEN "add" ELSE ""]

\* The attribute-style body of the fallback: only the Status attribute.
AttributePayload(statusId) ==
  [kind |-> "attribute", statusId |-> statusId, statusAct |-> "set",
   owner |-> NoMember, ownerAct |-> ""]

\* api.post(`/Data/${endpoint}/${ticketId}`, body), awaiting its response;
\* endpoint = assetType === 'Defect' ? 'Defect' : 'Story'.
Post(args, payload) ==
  [endpoint |-> IF args.assetType = "Defect" THEN "Defect" ELSE "Story", ticketId |-> args.ticketId,
   payload |-> payload, response |-> "pending"]

\* Mutant: the fallback is tried after any failure of the first POST.
FallBackOnAnyError(response) == response # "ok"

\* apiError.response?.status === 400
IsBadRequest(response) == response = "400"

\* The POST log with the response of the last POST filled in.
Answered(log, response) == [log EXCEPT ![Len(log)].response = response]

\* updateTicketStatus is entered: getValidatedConfig / createApiClient throw,
\* or the relation-style POST is sent.
UpdateBegin ==
  /\ updPc = "called"
  /\ \/ /\ updPc' = "rejected"
        /\ updError' = "Agility instance URL not configured"
        /\ UNCHANGED posts
     \/ /\ updPc' = "post1"
        /\ posts' = << Post(updArgs, RelationPayload(updArgs.statusId, updArgs.ownerId)) >>
        /\ UNCHANGED updError
  /\ UNCHANGED << mergeVars, settingVars, treeVars, cmdVars, opsStarted, updArgs, updCalls,
                  envVars, ticketVars, viewVars, cbVars, gitVars >>

\* The first POST comes back: success, an HTTP error status, or no response.
UpdateFirstResponse ==
  /\ updPc = "post1"
  /\ \E response \in { "ok", "400", "500", "none" } :
       IF response = "ok"
         THEN /\ posts' = Answered(posts, response)
              /\ updPc' = "resolved"
              /\ UNCHANGED updError
         ELSE IF IsBadRequest(response)
           THEN /\ posts' = Append(Answered(posts, response),
                                   Post(updArgs, AttributePayload(updArgs.statusId)))
                /\ updPc' = "post2"
                /\ UNCHANGED updError
           ELSE /\ posts' = Answered(posts, response)
                /\ updPc' = "rejected"
                /\ updError' = "Failed to update ticket status"
  /\ UNCHANGED << mergeVars, settingVars, treeVars, cmdVars, opsStarted, updArgs, updCalls,
                  envVars, ticketVars, viewVars, cbVars, gitVars >>

\* The fallback POST comes back.
UpdateFallbackResponse ==
  /\ updPc = "post2"
  /\ \E response \in { "ok", "400", "500", "none" } :
       /\ posts' = Answered(posts, response)
       /\ IF response = "ok"
            THEN updPc' = "resolved" /\ UNCHANGED updError
            ELSE updPc' = "rejected" /\ updError' = "Failed to update ticket status (fallback)"
  /\ UNCHANGED << mergeVars, settingVars, treeVars, cmdVars, opsStarted, updArgs, updCalls,
                  envVars, ticketVars, viewVars, cbVars, gitVars >>

\* A caller invokes updateTicketStatus(context, ticketId, statusId, assetType, ownerId).
UpdateCall ==
  /\ updPc = "idle"
  /\ \E ticketId \in { << "1", "2" >>, << "7" >> }, statusId \in StatusIds,
        assetType \in { "Story", "Defect", "Epic" }, ownerId \in { "M1", NoMember } :
       updArgs' = [ticketId |-> ticketId, statusId |-> statusId,
                   assetType |-> assetType, ownerId |-> ownerId]
  /\ updPc' = "called"
  /\ updCalls' = updCalls + 1
  /\ UNCHANGED << mergeVars, settingVars, treeVars, cmdVars, opsStarted, posts, updError,
                  envVars, ticketVars, viewVars, cbVars, gitVars >>

UpdateInit ==
  /\ ControllerIdle
  /\ TicketsIdle
  /\ MergeIdle
  /\ StatusIdle
  /\ ViewIdle
  /\ UpdateIdle
  /\ BranchIdle

UpdateNext ==
  \/ UpdateCall
  \/ UpdateBegin
  \/ UpdateFirstResponse
  \/ UpdateFallbackResponse

SpecUpdate == UpdateInit /\ [][UpdateNext]_vars

\* C6: the first POST carries the relation-style payload; a second POST is
\* sent if and only if the first failed with HTTP 400, to the same endpoint
\* and ticket, with the attribute-style payload; the call resolves exactly
\* when its last POST succeeded, and fails after any other failure of the
\* first POST without a second POST; no call sends more than two POSTs.
C6_FallbackOnlyOn400 ==
  /\ Len(posts) <= 2
  /\ Len(posts) >= 1 =>
       /\ posts[1].payload.kind = "relation"
       /\ posts[1].payload.statusId = updArgs.statusId
       /\ posts[1].endpoint = IF updArgs.assetType = "Defect" THEN "Defect" ELSE "Story"
  /\ Len(posts) = 2 <=> (Len(posts) >= 1 /\ posts[1].response = "400")
  /\ Len(posts) = 2 =>
       /\ posts[2].payload.kind = "attribute"
       /\ posts[2].payload.statusId = updArgs.statusId
       /\ posts[2].endpoint = posts[1].endpoint
       /\ posts[2].ticketId = posts[1].ticketId
  /\ updPc = "resolved" <=> (Len(posts) >= 1 /\ posts[Len(posts)].response = "ok")
  /\ (Len(posts) >= 1 /\ posts[Len(posts)].response \in { "500", "none" }) => updPc = "rejected"
  /\ (Len(posts) = 2 /\ posts[2].response = "400") => updPc = "rejected"
  /\ (Len(posts) >= 1 /\ posts[Len(posts)].response = "pending") =>
       updPc = (IF Len(posts) = 1 THEN "post1" ELSE "post2")

\* C6 witness: a call whose first POST got a 400 and whose fallback POST succeeded.
C6_Witness ==
  /\ updPc = "resolved"
  /\ Len(posts) = 2
  /\ posts[1].response = "400"
  /\ posts[2].response = "ok"

\* ------------------------------------------------------------------------
\* agility.createBranch: handleCreateBranch after ensureDevInProgressStatus
\* ------------------------------------------------------------------------
TicketS12 == << "S", "-", "1", "2" >>

TicketTitle == << "F", "i", "x", " ", "i", "t" >>

\* a || b on strings
OrElse(a, b) == IF a # << >> THEN a ELSE b

parseTicketArg(arg) ==
  [ticketNumber |-> OrElse(arg.number, arg.id),
   label |-> OrElse(arg.label, arg.name),
   assetId |-> arg.assetId,
   assetType |-> IF arg.assetType # "" THEN arg.assetType ELSE "Story"]

\* const hasHead = Boolean(repo.state?.HEAD?.commit); if (!hasHead) ... else createBranch
AfterExistingCheck == IF hasHead THEN "creating" ELSE "nocommit_prompt"

\* if (existingBranch) handleExistingBranch(...)
AfterRepository(branchName) ==
  IF branchName \in refs THEN "existing_prompt" ELSE AfterExistingCheck

\* Mutant: 'Switch to branch' lets the creation continue as well.
SwitchContinues(choice) == choice \in { "Switch to branch", "Delete branch" }

\* What handleExistingBranch returns for a choice (when its git call succeeds).
handleExistingBranchReturns(choice) == choice = "Delete branch"

\* const handled = await handleExistingBranch(...); if (!handled) return;
AfterExistingBranch(handled) == IF handled THEN AfterExistingCheck ELSE "done"

\* const handled = await handleNoCommits(...); if (!handled) return; return;
AfterNoCommits(handled) == IF handled THEN "done" ELSE "done"

\* Mutant: the status update is attempted whether or not a status id is known.
UpdateWithoutStatusId(devInProgressId, ticketId) == ticketId # << >>

\* if (devInProgressId) { ...; if (ticketId) { updateTicketStatus(...) } }
ShouldUpdateStatus(devInProgressId, ticketId) == devInProgressId # 0 /\ ticketId # << >>

\* Mutant: a failed status update is reported as a failed branch creation.
ReportBranchFailure(shown) == Append(shown, "Failed to create branch")

\* catch (error) { showErrorMessage(`Failed to update ticket status: ...`) }
ReportUpdateFailure(shown) == Append(shown, "Failed to update ticket status")

\* A git operation of the command is recorded with its outcome.
Git(op, branchName, ok) == gitOps' = Append(gitOps, [op |-> op, branch |-> branchName, ok |-> ok])

\* What no step of handleCreateBranch after ensureDevInProgressStatus changes.
BranchFrame ==
  UNCHANGED << mergeVars, settingVars, loading, treeItems, gcPc, gcStatuses, pendingRefresh,
               ccPc, ccItem, cmdVars, opsStarted, envVars, ticketVars, viewVars, cbDevId, cbMerged, cbStatuses,
               gitExtension, repoCount >>

\* An error escapes handleCreateBranch: the command's catch reports it.
Thrown ==
  /\ messages' = Append(messages, "Failed to create branch")
  /\ cbPc' = "done"

\* parseTicketArg(arg), arg the ticket object of the caller, each field present
\* or not (no argument at all parses like an object without fields).
ParseTicket ==
  /\ cbPc = "ticket_info"
  /\ \E arg \in [number : { << >>, TicketS12 }, id : { << >>, << "x" >> },
                 label : { << >>, TicketTitle }, name : { << >>, << "N" >> },
                 assetId : { << >>, << "7" >> }, assetType : { "", "Defect" }] :
       LET ticketInfo == parseTicketArg(arg)
       IN /\ cbTicket' = ticketInfo
          /\ cbPc' = IF ticketInfo.ticketNumber = << >>
                       THEN "number_prompt"
                       ELSE IF ticketInfo.label = << >> THEN "label_prompt" ELSE "repository"
  /\ BranchFrame
  /\ UNCHANGED << statusConfigs, cbBranch, cbChoices, messages, updVars,
                  refs, hasHead, currentBranch, gitOps >>

\* The input box 'Ticket number for branch name' is answered or dismissed.
NumberPromptAnswered ==
  /\ cbPc = "number_prompt"
  /\ \E answer \in { << >>, TicketS12, << "x" >> } :
       IF answer = << >>
         THEN /\ Chose("number", "")
              /\ cbPc' = "done"
              /\ UNCHANGED cbTicket
         ELSE /\ Chose("number", "entered")
              /\ cbTicket' = [cbTicket EXCEPT !.ticketNumber = answer]
              /\ cbPc' = IF cbTicket.label = << >> THEN "label_prompt" ELSE "repository"
  /\ BranchFrame
  /\ UNCHANGED << statusConfigs, cbBranch, messages, updVars, refs, hasHead, currentBranch, gitOps >>

\* The input box 'Ticket title' is answered or dismissed.
LabelPromptAnswered ==
  /\ cbPc = "label_prompt"
  /\ \E answer \in { << >>, TicketTitle } :
       /\ Chose("label", IF answer = << >> THEN "" ELSE "entered")
       /\ cbTicket' = [cbTicket EXCEPT !.label = answer]
  /\ cbPc' = "repository"
  /\ BranchFrame
  /\ UNCHANGED << statusConfigs, cbBranch, messages, updVars, refs, hasHead, currentBranch, gitOps >>

\* generateBranchName, then getGitRepository up to its quick pick.
GetGitRepository ==
  /\ cbPc = "repository"
  /\ LET branchName == generateBranchName(cbTicket.ticketNumber, cbTicket.label)
     IN /\ cbBranch' = branchName
        /\ IF ~gitExtension
             THEN /\ messages' = Append(messages, "Git extension not found. Unable to create branch.")
                  /\ cbPc' = "done"
             ELSE IF repoCount = 0
               THEN /\ messages' = Append(messages, "No git repositories found in workspace.")
                    /\ cbPc' = "done"
               ELSE /\ UNCHANGED messages
                    /\ cbPc' = IF repoCount > 1 THEN "repo_pick" ELSE AfterRepository(branchName)
  /\ BranchFrame
  /\ UNCHANGED << statusConfigs, cbTicket, cbChoices, updVars, refs, hasHead, currentBranch, gitOps >>

\* 'Select repository to create branch in' is answered or dismissed.
RepositoryPicked ==
  /\ cbPc = "repo_pick"
  /\ \E pick \in { "", "repository" } :
       /\ Chose("repository", pick)
       /\ cbPc' = IF pick = "" THEN "done" ELSE AfterRepository(cbBranch)
  /\ BranchFrame
  /\ UNCHANGED << statusConfigs, cbTicket, cbBranch, messages, updVars,
                  refs, hasHead, currentBranch, gitOps >>

\* handleExistingBranch: the quick pick is answered or dismissed.
ExistingBranchAnswered ==
  /\ cbPc = "existing_prompt"
  /\ \E choice \in { "", "Cancel", "Switch to branch", "Delete branch" } :
       /\ Chose("existing", choice)
       /\ cbPc' = IF choice = "Switch to branch"
                    THEN "switching"
                    ELSE IF choice = "Delete branch"
                      THEN "deleting"
                      ELSE AfterExistingBranch(handleExistingBranchReturns(choice))
  /\ BranchFrame
  /\ UNCHANGED << statusConfigs, cbTicket, cbBranch, messages, updVars,
                  refs, hasHead, currentBranch, gitOps >>

\* handleExistingBranch: repo.checkout(branchName) settles.
Checkout ==
  /\ cbPc = "switching"
  /\ \E ok \in BOOLEAN :
       /\ Git("checkout", cbBranch, ok)
       /\ IF ok
            THEN /\ currentBranch' = cbBranch
                 /\ messages' = Append(messages, "Switched to branch")
                 /\ cbPc' = AfterExistingBranch(handleExistingBranchReturns("Switch to branch"))
            ELSE /\ Thrown
                 /\ UNCHANGED currentBranch
  /\ BranchFrame
  /\ UNCHANGED << statusConfigs, cbTicket, cbBranch, cbChoices, updVars, refs, hasHead >>

\* handleExistingBranch: repo.deleteBranch(branchName, false) settles; git
\* refuses to delete the branch that is checked out.
DeleteBranch ==
  /\ cbPc = "deleting"
  /\ \E ok \in BOOLEAN :
       /\ ok => currentBranch # cbBranch
       /\ Git("deleteBranch", cbBranch, ok)
       /\ IF ok
            THEN /\ refs' = refs \ { cbBranch }
                 /\ messages' = Append(messages, "Deleted branch")
                 /\ cbPc' = AfterExistingBranch(handleExistingBranchReturns("Delete branch"))
            ELSE /\ Thrown
                 /\ UNCHANGED refs
  /\ BranchFrame
  /\ UNCHANGED << statusConfigs, cbTicket, cbBranch, cbChoices, updVars, hasHead, currentBranch >>

\* handleNoCommits: the quick pick is answered or dismissed.
NoCommitsAnswered ==
  /\ cbPc = "nocommit_prompt"
  /\ \E choice \in { "", "Cancel", "Create initial commit", "Create orphan branch" } :
       /\ Chose("nocommits", choice)
       /\ cbPc' = IF choice = "Create initial commit"
                    THEN "commit_add"
                    ELSE IF choice = "Create orphan branch"
                      THEN "orphan_checkout"
                      ELSE AfterNoCommits(FALSE)
  /\ BranchFrame
  /\ UNCHANGED << statusConfigs, cbTicket, cbBranch, messages, updVars,
                  refs, hasHead, currentBranch, gitOps >>

\* handleNoCommits, 'Create initial commit': git add -A, then git commit.
InitialCommitStep ==
  /\ cbPc \in { "commit_add", "commit_commit" }
  /\ \E ok \in BOOLEAN :
       /\ Git(IF cbPc = "commit_add" THEN "git add -A" ELSE "git commit", NoBranch, ok)
       /\ IF ~ok
            THEN /\ Thrown
                 /\ UNCHANGED << refs, hasHead >>
            ELSE IF cbPc = "commit_add"
              THEN /\ cbPc' = "commit_commit"
                   /\ UNCHANGED << messages, refs, hasHead >>
              ELSE /\ hasHead' = TRUE
                   /\ refs' = refs \cup { currentBranch }
                   /\ messages' = Append(messages, "Created initial commit.")
                   /\ cbPc' = AfterNoCommits(TRUE)
  /\ BranchFrame
  /\ UNCHANGED << statusConfigs, cbTicket, cbBranch, cbChoices, updVars, currentBranch >>

\* handleNoCommits, 'Create orphan branch': git checkout --orphan, git reset
\* --hard, git commit --allow-empty.
OrphanBranchStep ==
  /\ cbPc \in { "orphan_checkout", "orphan_reset", "orphan_commit" }
  /\ \E ok \in BOOLEAN :
       /\ Git(IF cbPc = "orphan_checkout"
                THEN "git checkout --orphan"
                ELSE IF cbPc = "orphan_reset" THEN "git reset --hard" ELSE "git commit --allow-empty",
              IF cbPc = "orphan_checkout" THEN cbBranch ELSE NoBranch, ok)
       /\ IF ~ok
            THEN /\ Thrown
                 /\ UNCHANGED << refs, hasHead, currentBranch >>
            ELSE IF cbPc = "orphan_checkout"
              THEN /\ currentBranch' = cbBranch
                   /\ cbPc' = "orphan_reset"
                   /\ UNCHANGED << messages, refs, hasHead >>
              ELSE IF cbPc = "orphan_reset"
                THEN /\ cbPc' = "orphan_commit"
                     /\ UNCHANGED << messages, refs, hasHead, currentBranch >>
                ELSE /\ hasHead' = TRUE
                     /\ refs' = refs \cup { cbBranch }
                     /\ messages' = Append(messages, "Created orphan branch")
                     /\ cbPc' = AfterNoCommits(FALSE)
                     /\ UNCHANGED currentBranch
  /\ BranchFrame
  /\ UNCHANGED << statusConfigs, cbTicket, cbBranch, cbChoices, updVars >>

\* repo.createBranch(branchName, true) settles; on success the status update
\* is started when a status id and a ticket id are known.
CreateBranch ==
  /\ cbPc = "creating"
  /\ \E ok \in BOOLEAN :
       /\ Git("createBranch", cbBranch, ok)
       /\ IF ~ok
            THEN /\ Thrown
                 /\ UNCHANGED << refs, currentBranch, updVars >>
            ELSE /\ refs' = refs \cup { cbBranch }
                 /\ currentBranch' = cbBranch
                 /\ messages' = Append(messages, "Created and checked out branch")
                 /\ LET ticketId == OrElse(cbTicket.assetId, Digits(cbTicket.ticketNumber))
                    IN IF ShouldUpdateStatus(cbDevId, ticketId)
                         THEN /\ updArgs' = [ticketId |-> ticketId, statusId |-> cbDevId,
                                             assetType |-> cbTicket.assetType,
                                             ownerId |-> selectedMember]
                              /\ updPc' = "called"
                              /\ updCalls' = updCalls + 1
                              /\ cbPc' = "updating"
                              /\ UNCHANGED << posts, updError >>
                         ELSE /\ cbPc' = "done"
                              /\ UNCHANGED updVars
  /\ BranchFrame
  /\ UNCHANGED << statusConfigs, cbTicket, cbBranch, cbChoices, hasHead >>

\* await updateTicketStatus(...) settles: the success message and
\* refreshViews(), or the catch block.
UpdateSettled ==
  /\ cbPc = "updating"
  /\ updPc \in { "resolved", "rejected" }
  /\ IF updPc = "resolved"
       THEN /\ messages' = Append(messages, IF selectedMember # NoMember
                                              THEN "Ticket status updated and added you as owner."
                                              ELSE "Ticket status updated.")
            /\ statusConfigs' = EmptyConfig
       ELSE /\ messages' = ReportUpdateFailure(messages)
            /\ UNCHANGED statusConfigs
  /\ cbPc' = "done"
  /\ BranchFrame
  /\ UNCHANGED << cbTicket, cbBranch, cbChoices, updVars, refs, hasHead, currentBranch, gitOps >>

\* One invocation of agility.createBranch, in every environment: settings,
\* selected member, git extension, repositories, branches, HEAD.
BranchInit ==
  /\ ControllerIdle
  /\ TicketsIdle
  /\ MergeIdle
  /\ ViewIdle
  /\ UpdateIdle
  /\ CommandIdle
  /\ statusConfig \in { c \in InitialConfigs : DOMAIN c \in { { }, StatusIds } }
  /\ selectedTeam \in { "T1", NoTeam }
  /\ lastSave = NoSave
  /\ legacyDevId \in { 0, 1 }
  /\ selectedMember \in { "M1", NoMember }
  /\ gitExtension \in BOOLEAN
  /\ repoCount \in (IF gitExtension THEN 0..2 ELSE { 0 })
  /\ hasHead \in BOOLEAN
  /\ refs \in (IF hasHead THEN { { MainBranch }, { MainBranch, generateBranchName(TicketS12, TicketTitle) } } ELSE { { } })
  /\ currentBranch \in (IF hasHead THEN refs ELSE { MainBranch })
  /\ gitOps = << >>

BranchNext ==
  \/ CreateBranchStart
  \/ EnsureTeamPromptAnswered
  \/ EnsureStatusPromptAnswered
  \/ EnsureNoStatuses
  \/ EnsureMerge
  \/ EnsurePickDismissed
  \/ EnsurePick
  \/ ParseTicket
  \/ NumberPromptAnswered
  \/ LabelPromptAnswered
  \/ GetGitRepository
  \/ RepositoryPicked
  \/ ExistingBranchAnswered
  \/ Checkout
  \/ DeleteBranch
  \/ NoCommitsAnswered
  \/ InitialCommitStep
  \/ OrphanBranchStep
  \/ CreateBranch
  \/ UpdateBegin
  \/ UpdateFirstResponse
  \/ UpdateFallbackResponse
  \/ UpdateSettled

SpecBranch == BranchInit /\ [][BranchNext]_vars

\* C7: once repo.createBranch has succeeded, a failing updateTicketStatus
\* leaves the created branch in place and checked out (createBranch stays the
\* last git operation), no 'Failed to create branch' message is ever shown,
\* and the command ends after showing exactly one 'Failed to update ticket
\* status' message, its last message, after 'Created and checked out branch'.
C7_UpdateFailureKeepsBranch ==
  updPc = "rejected" =>
    /\ cbPc \in { "updating", "done" }
    /\ gitOps # << >>
    /\ gitOps[Len(gitOps)] = [op |-> "createBranch", branch |-> cbBranch, ok |-> TRUE]
    /\ currentBranch = cbBranch
    /\ cbBranch \in refs
    /\ \A i \in DOMAIN messages : messages[i] # "Failed to create branch"
    /\ \E i \in DOMAIN messages : messages[i] = "Created and checked out branch"
    /\ cbPc = "done" =>
         /\ messages[Len(messages)] = "Failed to update ticket status"
         /\ Cardinality({ i \in DOMAIN messages :
                            messages[i] = "Failed to update ticket status" }) = 1

\* C7 witness: the command has ended after a POST of the status update failed.
C7_Witness ==
  /\ cbPc = "done"
  /\ updPc = "rejected"
  /\ posts # << >>
  /\ messages[Len(messages)] = "Failed to update ticket status"

\* C8: within one invocation updateTicketStatus is called at most once; when
\* it has been called, a dev-in-progress status id is known and is the one
\* passed, the last git operation is the successful createBranch of the
\* derived branch, no createBranch failed, no checkout of an existing branch
\* and no orphan checkout ran, and no prompt was answered with 'Switch to
\* branch', 'Cancel' or 'Create orphan branch' or dismissed on the way.
C8_UpdateOnceAfterCreate ==
  /\ updCalls <= 1
  /\ updPc # "idle" <=> updCalls = 1
  /\ updCalls = 1 =>
       /\ cbDevId # 0
       /\ updArgs.statusId = cbDevId
       /\ gitOps # << >>
       /\ gitOps[Len(gitOps)] = [op |-> "createBranch", branch |-> cbBranch, ok |-> TRUE]
       /\ \A i \in DOMAIN gitOps :
            /\ gitOps[i].op \notin { "checkout", "git checkout --orphan" }
            /\ gitOps[i].op = "createBranch" => gitOps[i].ok
       /\ \A i \in DOMAIN cbChoices :
            /\ cbChoices[i].answer \notin { "Switch to branch", "Cancel", "Create orphan branch" }
            /\ cbChoices[i].prompt \in { "number", "repository", "existing", "nocommits" }
                 => cbChoices[i].answer # ""

\* C8 witness: the command has ended after its one status update succeeded.
C8_Witness ==
  /\ cbPc = "done"
  /\ updCalls = 1
  /\ updPc = "resolved"
  /\ gitOps[Len(gitOps)].op = "createBranch"

\* C9: when 'Create initial commit' was chosen and git add -A and git commit
\* have succeeded, the command does not end without having called
\* repo.createBranch for the derived branch.
C9_InitialCommitContinues ==
  ( /\ cbPc = "done"
    /\ \E i \in DOMAIN cbChoices :
         cbChoices[i] = [prompt |-> "nocommits", answer |-> "Create initial commit"]
    /\ \E i \in DOMAIN gitOps : gitOps[i] = [op |-> "git commit", branch |-> NoBranch, ok |-> TRUE] )
  => \E i \in DOMAIN gitOps : gitOps[i].op = "createBranch" /\ gitOps[i].branch = cbBranch

\* C10: after the existing-branch prompt, 'Cancel' or a dismissal ends the
\* command with no git operation and no message of the command; 'Switch to
\* branch' runs one checkout of the derived branch and ends the command with
\* nothing created or deleted; 'Delete branch' first deletes the derived
\* branch and, the deletion done, goes on to createBranch of that name (a
\* deletion that fails ends the command with the branch still there).
C10_ExistingBranchChoices ==
  \A i \in DOMAIN cbChoices :
    cbChoices[i].prompt = "existing" =>
      LET choice == cbChoices[i].answer
      IN /\ choice \in { "", "Cancel" } =>
              /\ cbPc = "done"
              /\ gitOps = << >>
              /\ cbBranch \in refs
              /\ updCalls = 0
              /\ \A k \in DOMAIN messages :
                   messages[k] \in { "executeCommand agility.changeTeam",
                                     "Failed to fetch statuses",
                                     "No statuses found for the selected team.",
                                     "is now the Dev in Progress status." }
         /\ choice = "Switch to branch" =>
              /\ cbPc \in { "switching", "done" }
              /\ cbPc = "switching" => gitOps = << >>
              /\ cbPc = "done" =>
                   /\ Len(gitOps) = 1
                   /\ gitOps[1].op = "checkout"
                   /\ gitOps[1].branch = cbBranch
                   /\ gitOps[1].ok => currentBranch = cbBranch
              /\ cbBranch \in refs
              /\ updCalls = 0
         /\ choice = "Delete branch" =>
              /\ cbPc = "deleting" => gitOps = << >>
              /\ cbPc # "deleting" =>
                   /\ gitOps[1].op = "deleteBranch"
                   /\ gitOps[1].branch = cbBranch
                   /\ gitOps[1].ok =>
                        \/ cbPc = "creating" /\ Len(gitOps) = 1 /\ cbBranch \notin refs
                        \/ /\ Len(gitOps) = 2
                           /\ gitOps[2].op = "createBranch"
                           /\ gitOps[2].branch = cbBranch
                   /\ ~gitOps[1].ok =>
                        /\ cbPc = "done"
                        /\ Len(gitOps) = 1
                        /\ cbBranch \in refs
                        /\ messages[Len(messages)] = "Failed to create branch"

\* C10 witness: 'Delete branch' was chosen, the branch was deleted and then
\* created again and checked out.
C10_Witness ==
  /\ cbPc = "done"
  /\ \E i \in DOMAIN cbChoices :
       cbChoices[i] = [prompt |-> "existing", answer |-> "Delete branch"]
  /\ Len(gitOps) = 2
  /\ gitOps[1] = [op |-> "deleteBranch", branch |-> cbBranch, ok |-> TRUE]
  /\ gitOps[2] = [op |-> "createBranch", branch |-> cbBranch, ok |-> TRUE]
  /\ currentBranch = cbBranch

\* C18: whenever updateTicketStatus, called with an ownerId, has resolved, the
\* POST the server accepted carried the Owners relation adding that member
\* with act="add"; so 'added you as owner' is shown only after such a POST.
C18_AcceptedPostAddsOwner ==
  /\ (updPc = "resolved" /\ updArgs.ownerId # NoMember) =>
       /\ posts # << >>
       /\ posts[Len(posts)].response = "ok"
       /\ posts[Len(posts)].payload.owner = updArgs.ownerId
       /\ posts[Len(posts)].payload.ownerAct = "add"
  /\ (\E i \in DOMAIN messages : messages[i] = "Ticket status updated and added you as owner.") =>
       \E k \in DOMAIN posts :
         /\ posts[k].response = "ok"
         /\ posts[k].payload.owner = selectedMember
         /\ posts[k].payload.ownerAct = "add"

\* ------------------------------------------------------------------------
\* Specification of the branch name deriver: slugify and generateBranchName
\* applied to a ticket number and a title
\* ------------------------------------------------------------------------
MaxTitle == 5

UrgentTitle ==
  << "[", "U", "r", "g", "e", "n", "t", "]", " ", "S", "-", "1", "2", "3", "4", "5", ":", " ", "F", "i", "x", " ", "l", "o", "g", "i", "n", " ", "b", "u", "g" >>

SlugInit ==
  /\ ControllerIdle
  /\ MergeIdle
  /\ StatusIdle
  /\ ViewIdle
  /\ UpdateIdle
  /\ BranchIdle
  /\ gtTickets = << >>
  /\ gtGroups = << >>
  /\ gtPc = "idle"
  /\ \E pair \in ({ << "S", "-", "1", "2" >>, << "x" >> }
                    \X SeqsUpTo({ "a", "1", "2", "S", "[", "]" }, MaxTitle))
                 \cup { << << "S", "-", "1", "2", "3", "4", "5" >>, UrgentTitle >>,
                        << << "D", "-", "9", "9" >>, << >> >> } :
       /\ bnTicketNumber = pair[1]
       /\ bnTitle = pair[2]
  /\ bnSlug = << >>
  /\ bnBranchName = << >>
  /\ bnDone = { }

\* slugify(title)
Slugify ==
  /\ "slugify" \notin bnDone
  /\ bnSlug' = slugify(bnTitle)
  /\ bnDone' = bnDone \cup { "slugify" }
  /\ UNCHANGED << mergeVars, settingVars, treeVars, cmdVars, opsStarted, updVars, envVars,
                  viewVars, cbVars, gitVars, gtTickets, gtGroups, gtPc, bnTicketNumber, bnTitle,
                  bnBranchName >>

\* generateBranchName(ticketNumber, title)
GenerateBranchName ==
  /\ "generateBranchName" \notin bnDone
  /\ bnBranchName' = generateBranchName(bnTicketNumber, bnTitle)
  /\ bnDone' = bnDone \cup { "generateBranchName" }
  /\ UNCHANGED << mergeVars, settingVars, treeVars, cmdVars, opsStarted, updVars, envVars,
                  viewVars, cbVars, gitVars, gtTickets, gtGroups, gtPc, bnTicketNumber, bnTitle,
                  bnSlug >>

SlugNext ==
  \/ Slugify
  \/ GenerateBranchName

SpecSlug == SlugInit /\ [][SlugNext]_vars

\* C16: slugify("[Urgent] S-12345: Fix login bug") returns "fix_login_bug".
C16_UrgentExample ==
  ("slugify" \in bnDone /\ bnTitle = UrgentTitle) =>
    bnSlug = << "f", "i", "x", "_", "l", "o", "g", "i", "n", "_", "b", "u", "g" >>

MaxTickets == 3

\* The string made of the one character U+2014 (em dash).
EmDash == "EM DASH"

\* s === 'Unknown' || s === '—'
IsSentinel(s) == s \in { "Unknown", EmDash }

\* The positions k of list that satisfy keep[k], in ascending order.
Positions(keep) ==
  LET at == { k \in DOMAIN keep : keep[k] }
  IN [n \in 1..Cardinality(at) |->
        CHOOSE k \in at : Cardinality({ h \in at : h < k }) = n - 1]

\* Whether Object.values(statusConfig).find(cfg => cfg.name === s) finds an entry.
HasEntry(config, s) == \E i \in DOMAIN config : config[i].name = s

\* The entry it finds: Object.values lists integer keys in ascending order.
EntryByName(config, s) ==
  config[CHOOSE i \in DOMAIN config :
           /\ config[i].name = s
           /\ \A j \in DOMAIN config : config[j].name = s => i <= j]

\* a.localeCompare(b), as a sign
localeCompare(a, b) ==
  LET sorted == << EmDash, "A", "B", "Unknown" >>
      pos(n) == CHOOSE k \in 1..Len(sorted) : sorted[k] = n
  IN IF pos(a) < pos(b) THEN -1 ELSE IF pos(a) > pos(b) THEN 1 ELSE 0

\* The sort callback of groupTicketsByStatus, as a sign; an entry without
\* order counts as Number.MAX_SAFE_INTEGER.
CompareStatuses(config, a, b) ==
  IF IsSentinel(a)
    THEN 1
    ELSE IF IsSentinel(b)
      THEN -1
      ELSE IF HasEntry(config, a) /\ HasEntry(config, b)
        THEN IF EntryByName(config, a).order # EntryByName(config, b).order
               THEN (IF EntryByName(config, a).order < EntryByName(config, b).order THEN -1 ELSE 1)
               ELSE localeCompare(a, b)
        ELSE IF HasEntry(config, a)
          THEN -1
          ELSE IF HasEntry(config, b) THEN 1 ELSE localeCompare(a, b)

\* What Array.prototype.sort may return for the keys: the callback orders
\* every pair except two sentinels, for which it answers 1 both ways, so
\* that their relative order is left to the implementation.
SortOutcomes(config, keys) ==
  { sorted \in [1..Len(keys) -> { keys[k] : k \in 1..Len(keys) }] :
      /\ \A k \in 1..Len(keys) : \E n \in 1..Len(keys) : sorted[n] = keys[k]
      /\ \A i \in 1..Len(keys) : \A j \in (i + 1)..Len(keys) :
           \/ IsSentinel(sorted[i]) /\ IsSentinel(sorted[j])
           \/ CompareStatuses(config, sorted[i], sorted[j]) < 0 }

\* Mutant: every group is given the whole ticket list.
StatusGroupsUnsplit(config, tickets, statuses) ==
  [n \in 1..Len(statuses) |->
     [status |-> statuses[n],
      color |-> IF IsSentinel(statuses[n])
                  THEN unknownColor
                  ELSE IF HasEntry(config, statuses[n])
                    THEN EntryByName(config, statuses[n]).color
                    ELSE PaletteColor(n - 1),
      tickets |-> tickets]]

\* statuses.map((s, idx) => ({ status: s, color, tickets: statusMap.get(s) }))
StatusGroups(config, tickets, statuses) ==
  [n \in 1..Len(statuses) |->
     LET s == statuses[n]
         ofKey == Positions([k \in 1..Len(tickets) |->
                              (IF tickets[k].status = "" THEN "Unknown" ELSE tickets[k].status) = s])
     IN [status |-> s,
         color |-> IF IsSentinel(s)
                     THEN unknownColor
                     ELSE IF HasEntry(config, s)
                       THEN EntryByName(config, s).color
                       ELSE PaletteColor(n - 1),
         tickets |-> [k \in 1..Len(ofKey) |-> tickets[ofKey[k]]]]]

\* Persisted maps whose entries may share a name, and ticket lists whose
\* statuses may be empty or the em dash.
GroupInit ==
  /\ ControllerIdle
  /\ MergeIdle
  /\ ViewIdle
  /\ UpdateIdle
  /\ BranchIdle
  /\ bnTicketNumber = << >>
  /\ bnTitle = << >>
  /\ bnSlug = << >>
  /\ bnBranchName = << >>
  /\ bnDone = { }
  /\ \E D \in SUBSET StatusIds :
       statusConfig \in
         { c \in [D -> [id : D, name : { "A", "B" }, color : { "#2ca02c" }, order : { 1, 2 },
                        isDevInProgress : { "false" }, hidden : { "undefined", "true" }]] :
             \A i \in D : c[i].id = i }
  /\ selectedTeam = NoTeam
  /\ lastSave = NoSave
  /\ \E statuses \in SeqsUpTo({ "", "A", "B", EmDash }, MaxTickets) :
       gtTickets = [k \in 1..Len(statuses) |-> [number |-> k, status |-> statuses[k]]]
  /\ gtGroups = << >>
  /\ gtPc = "input"

\* groupTicketsByStatus(tickets): the keys in the order of their first
\* ticket, filtered, sorted, mapped to groups.
GroupTicketsByStatus ==
  /\ gtPc = "input"
  /\ LET key(k) == IF gtTickets[k].status = "" THEN "Unknown" ELSE gtTickets[k].status
         first == Positions([k \in 1..Len(gtTickets) |-> \A h \in 1..(k - 1) : key(h) # key(k)])
         shown == Positions([n \in 1..Len(first) |->
                    \/ IsSentinel(key(first[n]))
                    \/ ~HasEntry(statusConfig, key(first[n]))
                    \/ EntryByName(statusConfig, key(first[n])).hidden # "true"])
     IN \E statuses \in SortOutcomes(statusConfig, [n \in 1..Len(shown) |-> key(first[shown[n]])]) :
          gtGroups' = StatusGroups(statusConfig, gtTickets, statuses)
  /\ gtPc' = "grouped"
  /\ UNCHANGED << mergeVars, settingVars, treeVars, cmdVars, opsStarted, updVars, envVars,
                  viewVars, cbVars, gitVars, bnTicketNumber, bnTitle, bnSlug, bnBranchName, bnDone,
                  gtTickets >>

GroupNext == GroupTicketsByStatus

SpecGroup == GroupInit /\ [][GroupNext]_vars

\* C14: the groups other than 'Unknown' come in ascending order of the order
\* of the config entry of their name, a status without entry after every
\* status with one, equal orders alphabetically; 'Unknown' is last; statuses
\* {A: order 2, B: order 1, empty} come as B, A, Unknown.
C14_GroupOrder ==
  gtPc = "grouped" =>
    /\ \A i \in 1..Len(gtGroups) : \A j \in (i + 1)..Len(gtGroups) :
         LET a == gtGroups[i].status
             b == gtGroups[j].status
         IN /\ a # "Unknown"
            /\ (b # "Unknown") =>
                 IF HasEntry(statusConfig, a)
                   THEN HasEntry(statusConfig, b) =>
                          \/ EntryByName(statusConfig, a).order < EntryByName(statusConfig, b).order
                          \/ /\ EntryByName(statusConfig, a).order = EntryByName(statusConfig, b).order
                             /\ localeCompare(a, b) < 0
                   ELSE ~HasEntry(statusConfig, b) /\ localeCompare(a, b) < 0
    /\ ( /\ { gtTickets[k].status : k \in 1..Len(gtTickets) } = { "A", "B", "" }
         /\ \E i, j \in DOMAIN statusConfig :
              /\ statusConfig[i].name = "A" /\ statusConfig[i].order = 2
              /\ statusConfig[j].name = "B" /\ statusConfig[j].order = 1
         /\ \A i \in DOMAIN statusConfig : statusConfig[i].hidden # "true" )
         => [n \in 1..Len(gtGroups) |-> gtGroups[n].status] = << "B", "A", "Unknown" >>

\* C15: no returned group has the name of a config entry with hidden = true,
\* entries sharing a name included ('Unknown' apart); the 'Unknown' group is
\* returned whenever a ticket has an empty status.
C15_HiddenNeverReturned ==
  gtPc = "grouped" =>
    /\ \A n \in 1..Len(gtGroups) :
         gtGroups[n].status # "Unknown" =>
           ~\E i \in DOMAIN statusConfig :
               statusConfig[i].name = gtGroups[n].status /\ statusConfig[i].hidden = "true"
    /\ (\E k \in 1..Len(gtTickets) : gtTickets[k].status = "") =>
         \E n \in 1..Len(gtGroups) : gtGroups[n].status = "Unknown"

\* ------------------------------------------------------------------------
\* The 'My Tickets' view controller: TicketsWebviewProvider in my-tickets
\* mode (the team-tickets mode is the same code over teams) and the tree
\* view's AgilityTicketProvider.  The persisted selection is selectedMember.
\* ------------------------------------------------------------------------
MaxCalls == 2

\* What fetchMembers / loadTeamMembers resolves to when the server has members.
Directory == { "M1", "M2" }

\* Slot c is the first one that holds no call.
Free(c) ==
  /\ vcCalls[c].op = "idle"
  /\ \A d \in 1..(c - 1) : vcCalls[d].op # "idle"

\* The call in slot c of method op suspends at its await pc (with the value
\* arg it holds across the await), or ends (pc "idle") returning or reporting
\* ret; c = 0 when no async call is involved.  What the view controller never
\* touches stays as it is.
Go(c, op, pc, arg, ret) ==
  /\ vcCalls' = IF c = 0
                  THEN vcCalls
                  ELSE [vcCalls EXCEPT ![c] = [op |-> IF pc = "idle" THEN "idle" ELSE op,
                                               pc |-> pc, arg |-> arg]]
  /\ vcLast' = IF c # 0 /\ pc = "idle" THEN ret ELSE vcLast
  /\ UNCHANGED << mergeVars, settingVars, treeVars, cmdVars, opsStarted, updVars, legacyDevId,
                  ticketVars, cbVars, gitVars, vcKind, vcFilter >>

\* updateWebview() from its first line, or resumed after await loadMembers(),
\* up to its next await; it reads the fields as its caller has just set them.
UpdateWebview(c, resumed) ==
  IF ~resumed /\ ~vcView'
    THEN /\ Go(c, "updateWebview", "idle", NoMember, "no view")
         /\ UNCHANGED << vcHtml, vcLoading >>
    ELSE IF ~resumed /\ ~vcConfigured'
      THEN /\ vcHtml' = "configure"
           /\ Go(c, "updateWebview", "idle", NoMember, "configure")
           /\ UNCHANGED vcLoading
      ELSE IF ~resumed /\ vcMembers' = { }
        THEN /\ Go(c, "updateWebview", "members", NoMember, "")
             /\ UNCHANGED << vcHtml, vcLoading >>
        ELSE IF vcSelected' = NoMember
          THEN /\ vcHtml' = "select"
               /\ Go(c, "updateWebview", "idle", NoMember, "select")
               /\ UNCHANGED vcLoading
          ELSE IF vcTickets' = << >> /\ ~vcLoading
            THEN /\ vcLoading' = TRUE
                 /\ vcHtml' = "loading"
                 /\ Go(c, "updateWebview", "tickets", vcSelected', "")
            ELSE /\ vcHtml' = "tickets"
                 /\ Go(c, "updateWebview", "idle", NoMember, "tickets")
                 /\ UNCHANGED vcLoading

\* Mutant: the tree opens the quick pick whether or not one is open.
OpenPickerUnguarded(c, op) ==
  IF vcMembers' = { }
    THEN /\ Go(c, op, "idle", NoMember, "No team members found")
         /\ UNCHANGED vcSelecting
    ELSE /\ vcSelecting' = (vcKind = "tree")
         /\ Go(c, op, "pick", NoMember, "")

\* changeMember and the tree's getChildren once the members are loaded: no
\* members; the tree's selectingMember guard; showQuickPick.
OpenPicker(c, op) ==
  IF vcMembers' = { }
    THEN /\ Go(c, op, "idle", NoMember, "No team members found")
         /\ UNCHANGED vcSelecting
    ELSE IF vcKind = "tree" /\ vcSelecting
      THEN /\ Go(c, op, "idle", NoMember,
                 IF op = "getChildren" THEN "Select a member to continue" ELSE "")
           /\ UNCHANGED vcSelecting
      ELSE /\ vcSelecting' = (vcKind = "tree")
           /\ Go(c, op, "pick", NoMember, "")

\* The tree's getChildren from '1. Show Member Selector' on.
SelectOrLoad(c) ==
  IF vcSelected' = NoMember
    THEN /\ IF vcMembers' = { }
              THEN /\ Go(c, "getChildren", "members", NoMember, "")
                   /\ UNCHANGED vcSelecting
              ELSE OpenPicker(c, "getChildren")
         /\ UNCHANGED vcLoading
    ELSE /\ IF vcTickets' = << >>
              THEN /\ vcLoading' = TRUE
                   /\ Go(c, "getChildren", "api", NoMember, "")
              ELSE /\ Go(c, "getChildren", "idle", NoMember, "tickets")
                   /\ UNCHANGED vcLoading
         /\ UNCHANGED vcSelecting

\* resolveWebviewView: the host shows the view.
ResolveWebviewView ==
  /\ vcKind = "webview"
  /\ ~vcView
  /\ vcView' = TRUE
  /\ UNCHANGED << vcConfigured, vcMembers, vcSelected, vcTickets, vcSelecting, selectedMember >>
  /\ \E c \in 1..MaxCalls : Free(c) /\ UpdateWebview(c, FALSE)

\* Mutant: refresh() keeps the cached tickets.
RefreshKeepingTickets ==
  /\ UNCHANGED << vcTickets, vcConfigured, vcView, vcMembers, vcSelected, vcSelecting, selectedMember >>
  /\ IF vcKind = "webview"
       THEN \E c \in 1..MaxCalls : Free(c) /\ UpdateWebview(c, FALSE)
       ELSE Go(0, "refresh", "idle", NoMember, "") /\ UNCHANGED << vcHtml, vcLoading >>

\* refresh(), and the webview's 'refresh' message.
RefreshTickets ==
  /\ vcTickets' = << >>
  /\ UNCHANGED << vcConfigured, vcView, vcMembers, vcSelected, vcSelecting, selectedMember >>
  /\ IF vcKind = "webview"
       THEN \E c \in 1..MaxCalls : Free(c) /\ UpdateWebview(c, FALSE)
       ELSE Go(0, "refresh", "idle", NoMember, "") /\ UNCHANGED << vcHtml, vcLoading >>

\* Mutant: a change of the connection settings keeps the cached tickets.
ConfigurationChangedKeepingTickets ==
  /\ vcConfigured' \in BOOLEAN
  /\ vcMembers' = { }
  /\ vcSelected' = NoMember
  /\ UNCHANGED << vcTickets, vcView, vcSelecting, selectedMember >>
  /\ IF vcKind = "webview"
       THEN \E c \in 1..MaxCalls : Free(c) /\ UpdateWebview(c, FALSE)
       ELSE Go(0, "resetAndRefresh", "idle", NoMember, "") /\ UNCHANGED << vcHtml, vcLoading >>

\* onDidChangeConfiguration for agility.instanceUrl or agility.accessToken:
\* resetState() and refresh(), resetAndRefresh() in the tree.
ConfigurationChanged ==
  /\ vcConfigured' \in BOOLEAN
  /\ vcTickets' = << >>
  /\ vcMembers' = { }
  /\ vcSelected' = NoMember
  /\ UNCHANGED << vcView, vcSelecting, selectedMember >>
  /\ IF vcKind = "webview"
       THEN \E c \in 1..MaxCalls : Free(c) /\ UpdateWebview(c, FALSE)
       ELSE Go(0, "resetAndRefresh", "idle", NoMember, "") /\ UNCHANGED << vcHtml, vcLoading >>

\* changeMember() up to its first await.
ChangeMember ==
  /\ UNCHANGED << vcConfigured, vcView, vcHtml, vcMembers, vcSelected, vcTickets, vcLoading,
                  selectedMember >>
  /\ \E c \in 1..MaxCalls :
       /\ Free(c)
       /\ IF ~vcConfigured
            THEN /\ Go(c, "changeMember", "idle", NoMember,
                       "Please configure instance URL and access token first")
                 /\ UNCHANGED vcSelecting
            ELSE IF vcMembers = { }
              THEN /\ Go(c, "changeMember", "members", NoMember, "")
                   /\ UNCHANGED vcSelecting
              ELSE OpenPicker(c, "changeMember")

\* clearMember() up to await config.update('selectedMember', undefined).
ClearMember ==
  /\ UNCHANGED << vcConfigured, vcView, vcHtml, vcMembers, vcSelected, vcTickets, vcLoading,
                  vcSelecting, selectedMember >>
  /\ \E c \in 1..MaxCalls : Free(c) /\ Go(c, "clearMember", "persist", NoMember, "")

\* The webview's 'setMember' message (memberId '' stands for none) up to
\* await setSelectedMemberId.
SetMember ==
  /\ vcKind = "webview"
  /\ UNCHANGED << vcConfigured, vcView, vcHtml, vcMembers, vcSelected, vcTickets, vcLoading,
                  vcSelecting, selectedMember >>
  /\ \E c \in 1..MaxCalls, memberId \in Directory \cup { NoMember } :
       Free(c) /\ Go(c, "setMember", "persist", memberId, "")

\* The tree's getChildren() for the root, up to its first await.
GetChildren ==
  /\ vcKind = "tree"
  /\ UNCHANGED << vcConfigured, vcView, vcHtml, vcMembers, vcSelected, vcTickets, selectedMember >>
  /\ \E c \in 1..MaxCalls :
       /\ Free(c)
       /\ IF vcLoading \/ ~vcConfigured
            THEN /\ Go(c, "getChildren", "idle", NoMember,
                       IF vcLoading THEN "Loading..." ELSE "Configure Agility")
                 /\ UNCHANGED << vcLoading, vcSelecting >>
            ELSE IF vcSelected # NoMember /\ vcMembers = { }
              THEN /\ Go(c, "getChildren", "members1", NoMember, "")
                   /\ UNCHANGED << vcLoading, vcSelecting >>
              ELSE SelectOrLoad(c)

\* await loadMembers() / loadTeamMembers() settles (a failure leaves no
\* members), and the caller goes on to its next await.
MembersLoaded ==
  /\ \E c \in 1..MaxCalls, members \in { { }, Directory } :
       /\ vcCalls[c].pc \in { "members", "members1" }
       /\ vcMembers' = members
       /\ UNCHANGED << vcConfigured, vcView, vcSelected, vcTickets, selectedMember >>
       /\ IF vcCalls[c].op = "updateWebview"
            THEN UpdateWebview(c, TRUE) /\ UNCHANGED vcSelecting
            ELSE /\ IF vcCalls[c].pc = "members1"
                      THEN SelectOrLoad(c)
                      ELSE OpenPicker(c, vcCalls[c].op) /\ UNCHANGED vcLoading
                 /\ UNCHANGED vcHtml

\* Mutant: a dismissed quick pick clears the selection.
PickAnsweredClearing ==
  /\ \E c \in 1..MaxCalls, selected \in Directory \cup { NoMember } :
       /\ vcCalls[c].pc = "pick"
       /\ vcSelected' = selected
       /\ IF selected = NoMember
            THEN /\ vcSelecting' = FALSE
                 /\ Go(c, vcCalls[c].op, "idle", NoMember,
                       IF vcCalls[c].op = "getChildren" THEN "Select a member to continue" ELSE "dismissed")
            ELSE /\ Go(c, vcCalls[c].op, "persist", selected, "")
                 /\ UNCHANGED vcSelecting
  /\ UNCHANGED << vcConfigured, vcView, vcHtml, vcMembers, vcTickets, vcLoading, selectedMember >>

\* await showQuickPick(...) settles: dismissed (if (!selected) return, through
\* the tree's finally), or a member picked (the in-memory selection is set and
\* config.update awaited).
PickAnswered ==
  /\ \E c \in 1..MaxCalls, selected \in Directory \cup { NoMember } :
       /\ vcCalls[c].pc = "pick"
       /\ IF selected = NoMember
            THEN /\ vcSelecting' = FALSE
                 /\ Go(c, vcCalls[c].op, "idle", NoMember,
                       IF vcCalls[c].op = "getChildren" THEN "Select a member to continue" ELSE "dismissed")
                 /\ UNCHANGED vcSelected
            ELSE /\ vcSelected' = selected
                 /\ Go(c, vcCalls[c].op, "persist", selected, "")
                 /\ UNCHANGED vcSelecting
  /\ UNCHANGED << vcConfigured, vcView, vcHtml, vcMembers, vcTickets, vcLoading, selectedMember >>

\* await config.update('selectedMember', ...) settles, and the method runs to
\* its end: refresh() after changeMember and clearMember, updateWebview() after
\* 'setMember', the tree's finally.  A rejected update throws out of the method.
SelectionPersisted ==
  /\ \E c \in 1..MaxCalls, ok \in BOOLEAN :
       LET op == vcCalls[c].op
           memberId == vcCalls[c].arg
       IN /\ vcCalls[c].pc = "persist"
          /\ UNCHANGED << vcConfigured, vcView, vcMembers >>
          /\ vcSelecting' = IF op \in { "changeMember", "getChildren" } THEN FALSE ELSE vcSelecting
          /\ IF ~ok
               THEN /\ Go(c, op, "idle", NoMember, "rejected")
                    /\ UNCHANGED << selectedMember, vcSelected, vcTickets, vcHtml, vcLoading >>
               ELSE /\ selectedMember' = memberId
                    /\ vcSelected' = IF op \in { "clearMember", "setMember" } THEN memberId ELSE vcSelected
                    /\ vcTickets' = << >>
                    /\ IF vcKind = "webview"
                         THEN UpdateWebview(c, FALSE)
                         ELSE /\ Go(c, op, "idle", NoMember,
                                    IF op = "getChildren" THEN "Loading tickets for" ELSE "")
                              /\ UNCHANGED << vcHtml, vcLoading >>

\* Mutant: a failed fetch of the webview leaves the loading flag set.
TicketsLoadedKeepingFlag ==
  /\ \E c \in 1..MaxCalls, result \in { "tickets", "no tickets", "error" } :
       LET owner == vcCalls[c].arg
       IN /\ vcCalls[c].pc \in { "api", "tickets" }
          /\ UNCHANGED << vcConfigured, vcView, vcMembers, vcSelected, vcSelecting, selectedMember >>
          /\ IF vcKind = "webview"
               THEN /\ vcLoading' = (result = "error")
                    /\ vcHtml' = IF result = "error" THEN "error" ELSE "tickets"
                    /\ vcTickets' = IF result = "error"
                                      THEN vcTickets
                                      ELSE IF result = "tickets"
                                        THEN << [kind |-> "ticket", owner |-> owner] >>
                                        ELSE << >>
                    /\ Go(c, "updateWebview", "idle", NoMember, vcHtml')
               ELSE IF vcCalls[c].pc = "api" /\ result # "error"
                 THEN /\ result = "tickets"
                      /\ Go(c, "getChildren", "tickets", vcSelected, "")
                      /\ UNCHANGED << vcTickets, vcLoading, vcHtml >>
                 ELSE /\ vcLoading' = FALSE
                      /\ vcTickets' = << [kind |-> IF result = "tickets" THEN "ticket" ELSE result,
                                          owner |-> IF vcCalls[c].pc = "api" THEN vcSelected ELSE owner] >>
                      /\ Go(c, "getChildren", "idle", NoMember, "tickets")
                      /\ UNCHANGED vcHtml

\* The ticket fetch settles.  Webview: await loadTickets() for the member
\* selected when it was called.  Tree: await createApi, then await api.get
\* with the where clause built from this.selectedMemberId, then the catch and
\* the finally.
TicketsLoaded ==
  /\ \E c \in 1..MaxCalls, result \in { "tickets", "no tickets", "error" } :
       LET owner == vcCalls[c].arg
       IN /\ vcCalls[c].pc \in { "api", "tickets" }
          /\ UNCHANGED << vcConfigured, vcView, vcMembers, vcSelected, vcSelecting, selectedMember >>
          /\ IF vcKind = "webview"
               THEN /\ vcLoading' = FALSE
                    /\ vcHtml' = IF result = "error" THEN "error" ELSE "tickets"
                    /\ vcTickets' = IF result = "error"
                                      THEN vcTickets
                                      ELSE IF result = "tickets"
                                        THEN << [kind |-> "ticket", owner |-> owner] >>
                                        ELSE << >>
                    /\ Go(c, "updateWebview", "idle", NoMember, vcHtml')
               ELSE IF vcCalls[c].pc = "api" /\ result # "error"
                 THEN /\ result = "tickets"
                      /\ Go(c, "getChildren", "tickets", vcSelected, "")
                      /\ UNCHANGED << vcTickets, vcLoading, vcHtml >>
                 ELSE /\ vcLoading' = FALSE
                      /\ vcTickets' = << [kind |-> IF result = "tickets" THEN "ticket" ELSE result,
                                          owner |-> IF vcCalls[c].pc = "api" THEN vcSelected ELSE owner] >>
                      /\ Go(c, "getChildren", "idle", NoMember, "tickets")
                      /\ UNCHANGED vcHtml

\* The view controller after its constructor: the selection read from the
\* settings, nothing loaded, no view yet.
ViewInit ==
  /\ TicketsIdle
  /\ MergeIdle
  /\ StatusIdle
  /\ ViewIdle
  /\ UpdateIdle
  /\ CommandIdle
  /\ legacyDevId = 0
  /\ gitExtension = TRUE
  /\ repoCount = 1
  /\ refs = { MainBranch }
  /\ hasHead = TRUE
  /\ currentBranch = MainBranch
  /\ gitOps = << >>
  /\ vcKind \in { "webview", "tree" }
  /\ vcConfigured \in BOOLEAN
  /\ selectedMember \in Directory \cup { NoMember }
  /\ vcSelected = selectedMember
  /\ vcView = FALSE
  /\ vcHtml = "none"
  /\ vcMembers = { }
  /\ vcTickets = << >>
  /\ vcLoading = FALSE
  /\ vcSelecting = FALSE
  /\ vcCalls = [c \in 1..MaxCalls |-> [op |-> "idle", pc |-> "idle", arg |-> NoMember]]
  /\ vcLast = ""
  /\ vcFilter = ""

ViewNext ==
  \/ ResolveWebviewView
  \/ RefreshTickets
  \/ ConfigurationChanged
  \/ ChangeMember
  \/ ClearMember
  \/ SetMember
  \/ GetChildren
  \/ MembersLoaded
  \/ PickAnswered
  \/ SelectionPersisted
  \/ TicketsLoaded

SpecView == ViewInit /\ [][ViewNext]_vars

\* The filter changes.  Webview: the 'filter' message sets currentFilter and
\* sendTicketsUpdate() posts 'updateTickets' when there is a view.  Tree:
\* changeFilter() once showInputBox has settled: a dismissed box returns, any
\* other input is trimmed, stored and followed by refresh().
ChangeFilter ==
  /\ \E input \in { "undefined", "", "bug", " bug " } :
       IF vcKind = "webview"
         THEN /\ vcFilter' = IF input = "undefined" THEN "" ELSE input
              /\ vcLast' = IF vcView THEN "updateTickets" ELSE vcLast
              /\ UNCHANGED vcTickets
         ELSE /\ IF input = "undefined"
                   THEN UNCHANGED << vcFilter, vcTickets >>
                   ELSE /\ vcFilter' = IF input = " bug " THEN "bug" ELSE input
                        /\ vcTickets' = << >>
              /\ UNCHANGED vcLast
  /\ UNCHANGED << mergeVars, settingVars, treeVars, cmdVars, opsStarted, updVars, envVars,
                  ticketVars, cbVars, gitVars, vcKind, vcConfigured, vcView, vcHtml, vcMembers,
                  vcSelected, vcLoading, vcSelecting, vcCalls >>

\* The view controller with the filter operation added.
SpecFilter == ViewInit /\ [][ViewNext \/ ChangeFilter]_vars

\* The view controller with every awaited request settling: the promise of a
\* ticket fetch a call waits for is eventually resolved or rejected.
SpecViewFair ==
  /\ SpecView
  /\ \A c \in 1..MaxCalls :
       WF_vars(TicketsLoaded /\ vcCalls[c].pc \in { "api", "tickets" } /\ vcCalls'[c] # vcCalls[c])

\* C13: in the tree's AgilityTicketProvider at most one member quick pick is
\* open at any time and selectingMember is true while it is open; while
\* selectingMember is true no call opens a quick pick, a getChildren call that
\* reaches the selector returns 'Select a member to continue' and a
\* changeMember call returns; selectingMember is true only while the call that
\* opened the prompt has not ended, so it is false again once that call has
\* handled the answer or the dismissal.
C13_OnePromptAtATime ==
  /\ [](vcKind = "tree" =>
          /\ Cardinality({ c \in 1..MaxCalls : vcCalls[c].pc = "pick" }) <= 1
          /\ (\E c \in 1..MaxCalls : vcCalls[c].pc = "pick") => vcSelecting
          /\ vcSelecting <=>
               Cardinality({ c \in 1..MaxCalls :
                               /\ vcCalls[c].pc \in { "pick", "persist" }
                               /\ vcCalls[c].op \in { "getChildren", "changeMember" } }) = 1)
  /\ [][(vcKind = "tree" /\ vcSelecting) =>
          /\ \A c \in 1..MaxCalls : vcCalls'[c].pc = "pick" => vcCalls[c].pc = "pick"
          /\ (GetChildren /\ vcConfigured /\ ~vcLoading /\ vcSelected = NoMember /\ vcMembers # { })
               => /\ vcLast' = "Select a member to continue"
                  /\ vcCalls' = vcCalls
          /\ (ChangeMember /\ vcConfigured /\ vcMembers # { })
               => /\ vcLast' = ""
                  /\ vcCalls' = vcCalls]_vars

\* C13 witness: a quick pick of the tree is open and a getChildren call has
\* returned the placeholder.
C13_Witness ==
  /\ vcKind = "tree"
  /\ vcSelecting
  /\ \E c \in 1..MaxCalls : vcCalls[c].pc = "pick" /\ vcCalls[c].op = "changeMember"
  /\ vcSelected = NoMember
  /\ vcLast = "Select a member to continue"

\* C11: the step in which a member quick pick is dismissed (of changeMember
\* in either class, or of the tree's getChildren) changes neither the
\* persisted selection, nor the in-memory selection, nor the cached tickets.
C11_DismissalKeepsSelection ==
  [][(\E c \in 1..MaxCalls : vcCalls[c].pc = "pick" /\ vcCalls'[c].pc = "idle")
       => UNCHANGED << selectedMember, vcSelected, vcTickets >>]_vars

\* C11 witness: changeMember's quick pick was dismissed while a member was
\* selected and its tickets were cached, and they still are.
C11_Witness ==
  /\ vcLast = "dismissed"
  /\ selectedMember # NoMember
  /\ vcSelected = selectedMember
  /\ vcTickets # << >>

MatchesHexPattern(value) ==
  /\ Len(value) = 7
  /\ value[1] = "#"
  /\ \A k \in 2..7 : InClass(value[k], "[0-9A-Fa-f]")

\* setStatusColor(statusId, color), for the colours a caller may pass.
SetStatusColor ==
  /\ \E statusId \in StatusIds,
        color \in { << "#", "1", "F", "7", "7", "b", "4" >>, << "#", "f", "f", "f" >>,
                    << "r", "e", "d" >>, << "#", "1", "2", "3", "4", "5", "g" >> } :
       IF statusId \in DOMAIN statusConfig
         THEN Save([statusConfig EXCEPT ![statusId].color = color], "setStatusColor", 0)
         ELSE UNCHANGED << statusConfig, lastSave >>
  /\ UNCHANGED << mergeVars, selectedTeam, treeVars, cmdVars, opsStarted, updVars, envVars,
                  ticketVars, viewVars, cbVars, gitVars >>

\* changeColor(item): showColorPicker (dismissed, a preset, or 'Custom
\* Color...' with an input box that accepts only what validateInput lets
\* through, or is dismissed), then the save unless nothing was selected.
ShowColorPicker ==
  /\ \E i \in DOMAIN statusConfig,
        selected \in { "", "custom", "preset" },
        colorInput \in { << >>, << "#", "0", "0", "B", "c", "d", "4" >>, << "#", "f", "f", "f" >>,
                         << "r", "e", "d" >> } :
       LET selectedColor == IF selected = "custom"
                              THEN colorInput
                              ELSE IF selected = "preset"
                                THEN << "#", "f", "f", "6", "b", "6", "b" >>
                                ELSE << >>
       IN /\ selected = "custom" => (colorInput = << >> \/ MatchesHexPattern(colorInput))
          /\ IF selectedColor = << >>
               THEN UNCHANGED << statusConfig, lastSave >>
               ELSE Save(WithColor(statusConfig, statusConfig[i], selectedColor), "changeColor", 0)
  /\ UNCHANGED << mergeVars, selectedTeam, treeVars, cmdVars, opsStarted, updVars, envVars,
                  ticketVars, viewVars, cbVars, gitVars >>

\* A stored map whose colours are all 6-digit hex strings.
ColorInit ==
  /\ TicketsIdle
  /\ ControllerIdle
  /\ MergeIdle
  /\ ViewIdle
  /\ UpdateIdle
  /\ BranchIdle
  /\ selectedTeam = NoTeam
  /\ lastSave = NoSave
  /\ \E c \in InitialConfigs :
       statusConfig = [i \in DOMAIN c |->
                         [c[i] EXCEPT !.color = << "#", "a", "b", "c", "d", "e", "f" >>]]

ColorNext ==
  \/ SetStatusColor
  \/ ShowColorPicker

SpecColor == ColorInit /\ [][ColorNext]_vars

\* C21: every entry of the persisted map has a colour that matches #RRGGBB.
C21_ColorsAreHex ==
  \A i \in DOMAIN statusConfig : MatchesHexPattern(statusConfig[i].color)


\* C22: the branch name generateBranchName returns has a non-empty slug after
\* the ticket number and the slash.
C22_SlugNeverEmpty ==
  "generateBranchName" \in bnDone => Len(bnBranchName) > Len(bnTicketNumber) + 1


\* C23: a step that presents the member selection (the webview's select page,
\* or a quick pick that opens) happens only with a non-empty member directory.
C23_PickerNeedsDirectory ==
  [][((vcHtml' = "select" /\ vcHtml # "select")
        \/ \E c \in 1..MaxCalls : vcCalls'[c].pc = "pick" /\ vcCalls[c].pc # "pick")
       => vcMembers' # { }]_vars


\* C24: every ticket fetch that is started settles and its call ends; the step
\* that settles it leaves the loading flag false, with the tickets page (the
\* tree: the fetched items cached) after a success and the error page (the
\* tree: the error item) after a failure; the loading flag never stays true.
C24_FetchLeavesLoading ==
  /\ \A c \in 1..MaxCalls : (vcCalls[c].pc \in { "api", "tickets" }) ~> (vcCalls[c].pc = "idle")
  /\ vcLoading ~> ~vcLoading
  /\ [][\A c \in 1..MaxCalls :
          (vcCalls[c].pc \in { "api", "tickets" } /\ vcCalls'[c].pc = "idle")
            => /\ ~vcLoading'
               /\ IF vcKind = "webview"
                    THEN vcHtml' \in { "tickets", "error" }
                    ELSE Len(vcTickets') = 1]_vars

C24_Witness ==
  /\ ~vcLoading
  /\ \A c \in 1..MaxCalls : vcCalls[c].pc = "idle"
  /\ \/ vcKind = "webview" /\ vcHtml = "error"
     \/ vcKind = "tree" /\ vcTickets # << >> /\ vcTickets[1].kind = "error"


\* C25: a controller that shows the error of a failed ticket fetch (no fetch in
\* flight) keeps showing it, with no new fetch, through every step other than
\* an explicit refresh, a change of the selection or a change of the
\* connection settings; a filter change in particular leaves it in Error.
C25_ErrorUntilRefresh ==
  [][(/\ ~vcLoading
      /\ \A c \in 1..MaxCalls : vcCalls[c].pc \notin { "api", "tickets" }
      /\ IF vcKind = "webview"
           THEN vcView /\ vcHtml = "error"
           ELSE vcTickets # << >> /\ vcTickets[1].kind = "error"
      /\ vcSelected' = vcSelected
      /\ vcConfigured' = vcConfigured
      /\ vcMembers' = vcMembers
      /\ ~RefreshTickets)
       => /\ ~vcLoading'
          /\ \A c \in 1..MaxCalls : vcCalls'[c].pc \notin { "api", "tickets" }
          /\ vcTickets' = vcTickets
          /\ vcHtml' = vcHtml]_vars


C27_OneFetchInFlight ==
  Cardinality({ c \in 1..MaxCalls : vcCalls[c].pc \in { "api", "tickets" } }) <= 1


\* C28: while a ticket fetch of the webview is in flight (loading is true) the
\* view never shows the tickets / 'No tickets found' page.
C28_PlaceholderWhileLoading ==
  (vcKind = "webview" /\ vcLoading) => vcHtml # "tickets"


\* C29: a step that changes the text filter starts no ticket fetch and leaves
\* the cached tickets, the selection and the loading flag as they are.
C29_FilterKeepsTickets ==
  [][(ChangeFilter /\ vcFilter' # vcFilter)
       => UNCHANGED << vcTickets, vcSelected, selectedMember, vcLoading, vcCalls >>]_vars


\* C30: once the user has answered 'Skip' to, or dismissed, a prompt of
\* ensureDevInProgressStatus (shown because no status is flagged and no legacy
\* id is set), the command goes on with the ticket and the git steps (the step
\* that records the answer moves to parseTicketArg), it never calls
\* updateTicketStatus, and the persisted status map is never saved.
C30_SkipStillCreates ==
  /\ []((\E k \in DOMAIN cbChoices :
            /\ cbChoices[k].prompt \in { "team", "status", "pick" }
            /\ cbChoices[k].answer \in { "Skip", "" })
          => /\ cbDevId = 0
             /\ updCalls = 0
             /\ updPc = "idle"
             /\ posts = << >>
             /\ lastSave = NoSave
             /\ cbPc \notin { "updating", "ensure_team_prompt", "ensure_status_prompt",
                              "ensure_fetch", "ensure_pick" })
  /\ [][(/\ Len(cbChoices') = Len(cbChoices) + 1
         /\ cbChoices'[Len(cbChoices')].prompt \in { "team", "status", "pick" }
         /\ cbChoices'[Len(cbChoices')].answer \in { "Skip", "" })
          => /\ getDevInProgressStatusId(statusConfig, legacyDevId) = 0
             /\ cbPc' = "ticket_info"
             /\ statusConfig' = statusConfig]_vars

C30_Witness ==
  /\ \E k \in DOMAIN cbChoices :
       /\ cbChoices[k].prompt \in { "team", "status", "pick" }
       /\ cbChoices[k].answer \in { "Skip", "" }
  /\ \E m \in DOMAIN messages : messages[m] = "Created and checked out branch"
  /\ cbPc = "done"
  /\ updCalls = 0


\* C31: once 'Select Team' has been answered to the team prompt of
\* ensureDevInProgressStatus and the command has gone on to the ticket, the
\* same invocation has asked for a status and holds the chosen, persisted id.
C31_SelectTeamThenStatus ==
  (/\ \E k \in DOMAIN cbChoices :
        cbChoices[k].prompt = "team" /\ cbChoices[k].answer = "Select Team"
   /\ cbPc \notin { "idle", "ensure_team_prompt", "ensure_status_prompt", "ensure_fetch",
                    "ensure_pick" })
    => /\ \E k \in DOMAIN cbChoices :
            cbChoices[k].prompt = "pick" /\ cbChoices[k].answer = "status"
       /\ cbDevId # 0
       /\ lastSave # NoSave


\* C32: the save that ends handleSetDevInProgressStatus writes the map the
\* command merged before its quick pick, with the chosen flag, whatever has
\* been saved in between: the persisted map afterwards has exactly the keys
\* and, apart from the flag, the values read then, so an update another
\* operation saved while the pick was open is gone.
C32_LaterSaveOverwrites ==
  [][SetDevPick =>
       /\ \E i \in IdsOf(cmdStatuses) : statusConfig' = FlagOnly(cmdMerged, i)
       /\ DOMAIN statusConfig' = DOMAIN cmdMerged
       /\ \A j \in DOMAIN cmdMerged :
            [statusConfig'[j] EXCEPT !.isDevInProgress = "x"]
              = [cmdMerged[j] EXCEPT !.isDevInProgress = "x"]]_vars

\* C32 witness: the status view has merged and saved a status after the command
\* read the map, and the command's save has removed it from the persisted map.
C32_Witness ==
  /\ lastSave.by = "handleSetDevInProgressStatus"
  /\ cmdPc = "idle"
  /\ DOMAIN statusConfigs \ DOMAIN statusConfig # { }


\* C33: in the webview provider a call opens the selection quick pick only
\* while no quick pick of the provider is open.
C33_OneWebviewPrompt ==
  [][(/\ vcKind = "webview"
      /\ \E c \in 1..MaxCalls : vcCalls[c].pc # "pick" /\ vcCalls'[c].pc = "pick")
       => \A c \in 1..MaxCalls : vcCalls[c].pc # "pick"]_vars


\* C34: a non-empty cached ticket list of the webview provider that is not
\* loading was fetched for the member that is selected now.
C34_TicketsOfSelection ==
  (vcKind = "webview" /\ vcTickets # << >> /\ ~vcLoading)
    => \A k \in DOMAIN vcTickets : vcTickets[k].owner = vcSelected


\* C35: while no call of the webview provider is in progress, its in-memory
\* selection equals the persisted setting agility.selectedMember.
C35_SelectionMatchesSetting ==
  (vcKind = "webview" /\ \A c \in 1..MaxCalls : vcCalls[c].op = "idle")
    => vcSelected = selectedMember


\* C36: the groups returned by groupTicketsByStatus partition the tickets whose
\* status passes the hidden filter: each such ticket is at exactly one place
\* of exactly one group, the group of its status ('Unknown' for an empty
\* status); every ticket of a group is an input ticket of that status; the
\* tickets of a group keep their input order; no group is empty and no two
\* groups have the same status.
C36_GroupsPartition ==
  gtPc = "grouped" =>
    /\ \A k \in 1..Len(gtTickets) :
         LET key == IF gtTickets[k].status = "" THEN "Unknown" ELSE gtTickets[k].status
             places == { p \in { << n, m >> : n \in 1..Len(gtGroups), m \in 1..MaxTickets } :
                           /\ p[2] <= Len(gtGroups[p[1]].tickets)
                           /\ gtGroups[p[1]].tickets[p[2]] = gtTickets[k] }
         IN /\ Cardinality(places) <= 1
            /\ \A p \in places : gtGroups[p[1]].status = key
            /\ (\/ IsSentinel(key)
                \/ ~HasEntry(statusConfig, key)
                \/ EntryByName(statusConfig, key).hidden # "true") => Cardinality(places) = 1
    /\ \A n \in 1..Len(gtGroups) :
         /\ gtGroups[n].tickets # << >>
         /\ \A m \in 1..Len(gtGroups[n].tickets) :
              \E k \in 1..Len(gtTickets) : gtTickets[k] = gtGroups[n].tickets[m]
         /\ \A m \in 1..Len(gtGroups[n].tickets) : \A h \in (m + 1)..Len(gtGroups[n].tickets) :
              gtGroups[n].tickets[m].number < gtGroups[n].tickets[h].number
         /\ \A h \in 1..Len(gtGroups) : gtGroups[h].status = gtGroups[n].status => h = n

\* C36 witness: three tickets, two of one status around one of another status
\* that is hidden, grouped into the one group of the two.
C36_Witness ==
  /\ gtPc = "grouped"
  /\ Len(gtTickets) = 3
  /\ gtTickets[1].status = "A" /\ gtTickets[2].status = "B" /\ gtTickets[3].status = "A"
  /\ Len(gtGroups) = 1
  /\ gtGroups[1].status = "A"
  /\ Len(gtGroups[1].tickets) = 2

====
